---- MODULE Spec2Model ----
(***************************************************************************)
(* Cookie scraper: the analysis functions of cookie_utils.py, the          *)
(* per-cookie classifiers of cookie_spider.py and the crawl of the spider. *)
(*                                                                         *)
(* Python strings are tuples of one-character strings, so that startswith, *)
(* endswith, split, lower, substring tests and regular expressions are     *)
(* computed on characters.  Python dicts are functions: a key is present   *)
(* iff it is in the DOMAIN.  A dict whose insertion order matters is kept  *)
(* as a tuple of <<key, value>> pairs.  JSON null / Python None is None.   *)
(* Real numbers (seconds, days) are exact rationals [num, den].            *)
(***************************************************************************)
EXTENDS Integers, Sequences, FiniteSets, TLC

VARIABLES
    pc,            \* which function of the program ran last
    args,          \* the arguments of the last call of a classifier
    ret,           \* the value that call returned
    cookie_files,  \* cookie_utils.main: the list load_cookie_files builds
    stats,         \* cookie_utils.main: the result of analyze_cookies
    relationships, \* the result of analyze_domain_relationships
    directory,     \* the files of cookies_dir that load_cookie_files has read
    xss_stats,     \* cookie_utils.main: the result of analyze_xss_vulnerabilities
    spider         \* CookieSpider: its attributes, the scheduler and what the crawl produced

vars == <<pc, args, ret, cookie_files, stats, relationships, directory, xss_stats, spider>>

(***************************************************************************)
(* Python values                                                           *)
(***************************************************************************)
None == [none |-> TRUE]

\* dict.get(key, default)
Get(d, key, default) == IF key \in DOMAIN d THEN d[key] ELSE default

Max(a, b) == IF a >= b THEN a ELSE b

\* A rational number num/den with den > 0.
Rat(n, d) == [num |-> n, den |-> d]

RatLt(r, k) == r.num < k * r.den

RatLe(r, k) == r.num <= k * r.den

RatEq(r, k) == r.num = k * r.den

\* int(x): truncation toward zero.
RatInt(r) == IF r.num >= 0 THEN r.num \div r.den ELSE -((-r.num) \div r.den)

(***************************************************************************)
(* str methods                                                             *)
(***************************************************************************)
RECURSIVE Concat(_)
\* ''.join(parts)
Concat(parts) == IF parts = <<>> THEN <<>> ELSE Head(parts) \o Concat(Tail(parts))

\* s.startswith(p)
StartsWith(s, p) == Len(p) <= Len(s) /\ SubSeq(s, 1, Len(p)) = p

\* s.endswith(p)
EndsWith(s, p) == Len(p) <= Len(s) /\ SubSeq(s, Len(s) - Len(p) + 1, Len(s)) = p

\* p in s
Contains(s, p) == \E i \in 1..(Len(s) - Len(p) + 1) : SubSeq(s, i, i + Len(p) - 1) = p

\* c in s, for one character c
HasChar(s, c) == \E i \in 1..Len(s) : s[i] = c

\* The first index of character c in s, 0 when there is none.
IndexOf(s, c) == IF HasChar(s, c) THEN CHOOSE i \in 1..Len(s) : s[i] = c /\ \A j \in 1..(i - 1) : s[j] # c ELSE 0

RECURSIVE Split(_, _)
\* s.split(c)
Split(s, c) ==
    LET i == IndexOf(s, c)
    IN  IF i = 0 THEN <<s>> ELSE <<SubSeq(s, 1, i - 1)>> \o Split(SubSeq(s, i + 1, Len(s)), c)

RECURSIVE Join(_, _)
\* c.join(parts)
Join(parts, c) ==
    IF parts = <<>> THEN <<>>
    ELSE IF Len(parts) = 1 THEN parts[1]
    ELSE parts[1] \o <<c>> \o Join(Tail(parts), c)

\* parts[-n:]
LastN(parts, n) == SubSeq(parts, Max(1, Len(parts) - n + 1), Len(parts))

Upper == <<"A","B","C","D","E","F","G","H","I","J","K","L","M","N","O","P","Q","R","S","T","U","V","W","X","Y","Z">>

Lower == <<"a","b","c","d","e","f","g","h","i","j","k","l","m","n","o","p","q","r","s","t","u","v","w","x","y","z">>

\* The characters of the string s.
Chars(s) == {s[i] : i \in 1..Len(s)}

LowerOf == [c \in Chars(Upper) |-> Lower[IndexOf(Upper, c)]]

UpperOf == [c \in Chars(Lower) |-> Upper[IndexOf(Lower, c)]]

LowerChar(c) == IF c \in DOMAIN LowerOf THEN LowerOf[c] ELSE c

UpperChar(c) == IF c \in DOMAIN UpperOf THEN UpperOf[c] ELSE c

\* s.lower()
ToLower(s) == [i \in 1..Len(s) |-> LowerChar(s[i])]

\* s.capitalize()
Capitalize(s) == [i \in 1..Len(s) |-> IF i = 1 THEN UpperChar(s[i]) ELSE LowerChar(s[i])]

Digits == <<"0","1","2","3","4","5","6","7","8","9">>

DigitChars == Chars(Digits)

RECURSIVE DecimalValue(_)
DecimalValue(s) == IF s = <<>> THEN 0 ELSE 10 * DecimalValue(SubSeq(s, 1, Len(s) - 1)) + (IndexOf(Digits, s[Len(s)]) - 1)

(***************************************************************************)
(* cookie_spider.py: CookieSpider.calculate_cookie_age                     *)
(*                                                                         *)
(* An expiry is None, a number [num |-> n] or a string [str |-> chars].    *)
(* Times are whole seconds, so expiry - now is exact.                      *)
(***************************************************************************)
SecondsPerDay == 86400

SecondsPerHour == 3600

SecondsPerMinute == 60

DaysPerMonth == 30

DaysPerYear == 365

IsNum(v) == DOMAIN v = {"num"}

IsStr(v) == DOMAIN v = {"str"}

\* <<"n","o","t"," ","e","x","p","i","r","y","_","t","i","m","e","s","t","a","m","p">>: None, 0 and '' are falsy.
Falsy(v) == v = None \/ (IsNum(v) /\ v.num = 0) \/ (IsStr(v) /\ v.str = <<>>)

\* float(s) of a string succeeds on an optionally signed run of digits; strings
\* are drawn over digits, signs and letters, and anything else raises ValueError.
FloatParses(s) ==
    LET body == IF s # <<>> /\ s[1] \in {"-", "+"} THEN Tail(s) ELSE s
    IN  body # <<>> /\ \A i \in 1..Len(body) : body[i] \in DigitChars

FloatOfStr(s) ==
    IF s[1] = "-" THEN -DecimalValue(Tail(s))
    ELSE IF s[1] = "+" THEN DecimalValue(Tail(s))
    ELSE DecimalValue(s)

session_age_info ==
    [seconds |-> None, days |-> None,
     readable |-> "Session cookie (expires when browser closes)", is_session |-> TRUE]

\* f"{int(x)} unit{'s' if x != 1 else ''}"
Readable(x, unit) == ToString(RatInt(x)) \o " " \o unit \o (IF ~RatEq(x, 1) THEN "s" ELSE "")

\* The day threshold taken with <= instead of <.
readable_age_le(age_seconds) ==
    LET age_days == Rat(age_seconds, SecondsPerDay)
        hours    == Rat(age_seconds, SecondsPerHour)
        minutes  == Rat(age_seconds, SecondsPerMinute)
        months   == Rat(age_seconds, SecondsPerDay * DaysPerMonth)
        years    == Rat(age_seconds, SecondsPerDay * DaysPerYear)
    IN  IF RatLe(age_days, 1)
        THEN IF RatLt(hours, 1) THEN Readable(minutes, "minute") ELSE Readable(hours, "hour")
        ELSE IF RatLt(age_days, DaysPerMonth) THEN Readable(age_days, "day")
        ELSE IF RatLt(age_days, DaysPerYear) THEN Readable(months, "month")
        ELSE Readable(years, "year")

readable_age(age_seconds) ==
    LET age_days == Rat(age_seconds, SecondsPerDay)
        hours    == Rat(age_seconds, SecondsPerHour)
        minutes  == Rat(age_seconds, SecondsPerMinute)
        months   == Rat(age_seconds, SecondsPerDay * DaysPerMonth)
        years    == Rat(age_seconds, SecondsPerDay * DaysPerYear)
    IN  IF RatLt(age_days, 1)
        THEN IF RatLt(hours, 1) THEN Readable(minutes, "minute") ELSE Readable(hours, "hour")
        ELSE IF RatLt(age_days, DaysPerMonth) THEN Readable(age_days, "day")
        ELSE IF RatLt(age_days, DaysPerYear) THEN Readable(months, "month")
        ELSE Readable(years, "year")

age_of_seconds(age_seconds) ==
    IF age_seconds <= 0
    THEN [seconds |-> Rat(age_seconds, 1), days |-> Rat(age_seconds, SecondsPerDay),
          readable |-> "Expired", is_session |-> FALSE]
    ELSE [seconds |-> Rat(age_seconds, 1), days |-> Rat(age_seconds, SecondsPerDay),
          readable |-> readable_age(age_seconds), is_session |-> FALSE]

calculate_cookie_age(expiry_timestamp, current_time) ==
    IF Falsy(expiry_timestamp) THEN session_age_info
    ELSE IF IsNum(expiry_timestamp) THEN age_of_seconds(expiry_timestamp.num - current_time)
    ELSE IF FloatParses(expiry_timestamp.str)
         THEN age_of_seconds(FloatOfStr(expiry_timestamp.str) - current_time)
         ELSE session_age_info

\* The inputs: expiries around every threshold of the readable string.
MaxDelta == 1

AgeThresholds ==
    {0, SecondsPerMinute, 2 * SecondsPerMinute, SecondsPerHour, SecondsPerHour + 30 * SecondsPerMinute,
     2 * SecondsPerHour, SecondsPerDay, 2 * SecondsPerDay, DaysPerMonth * SecondsPerDay,
     2 * DaysPerMonth * SecondsPerDay, DaysPerYear * SecondsPerDay, 2 * DaysPerYear * SecondsPerDay}

Times == {1000, 1001, 2000}

Expiries ==
    {None}
    \cup {[num |-> 0]}
    \cup {[num |-> now + th + d] : now \in Times, th \in AgeThresholds, d \in (-MaxDelta)..MaxDelta}
    \cup {[str |-> s] : s \in {<<>>, <<"0">>, <<"1","2">>, <<"-","5">>, <<"+","2","0","0","0">>, <<"a","b","c">>, <<"1","x">>, <<"-">>}}

(***************************************************************************)
(* cookie_spider.py: CookieSpider.extract_base_domain                      *)
(***************************************************************************)
\* domain.split(':', 1)[0]
BeforeColon(domain) == IF HasChar(domain, ":") THEN SubSeq(domain, 1, IndexOf(domain, ":") - 1) ELSE domain

\* The special case for co.uk, com.au, ... left out.
extract_base_domain_plain(domain) ==
    IF domain = <<>> THEN <<>>
    ELSE LET host  == BeforeColon(domain)
             parts == Split(host, ".")
         IN  IF Len(parts) >= 2 THEN Join(LastN(parts, 2), ".") ELSE host

extract_base_domain(domain) ==
    IF domain = <<>> THEN <<>>
    ELSE LET host  == BeforeColon(domain)
             parts == Split(host, ".")
         IN  IF /\ Len(parts) > 2
                /\ parts[Len(parts) - 1] \in {<<"c","o">>, <<"c","o","m">>, <<"o","r","g">>, <<"n","e","t">>, <<"e","d","u">>, <<"g","o","v">>}
                /\ parts[Len(parts)] \in {<<"u","k">>, <<"a","u">>, <<"n","z">>, <<"j","p">>}
             THEN Join(LastN(parts, 3), ".")
             ELSE IF Len(parts) >= 2 THEN Join(LastN(parts, 2), ".")
             ELSE host

(***************************************************************************)
(* tldextract.extract, the library call of is_third_party_cookie and       *)
(* analyze_domain_relationships, as the library computes it: the netloc    *)
(* loses its port and its trailing dots, is split on '.', and the longest  *)
(* public suffix (wildcard and exception rules included) is cut off; the   *)
(* label before the suffix is the domain.  The suffix list is the part of  *)
(* the public suffix list that the host labels of the model can spell.     *)
(***************************************************************************)
public_suffixes == {<<"c","o","m">>, <<"n","e","t">>, <<"u","k">>, <<"c","o",".","u","k">>, <<"*",".","c","k">>, <<"!","w","w","w",".","c","k">>}

RECURSIVE RStripDots(_)
\* hostname.rstrip('.')
RStripDots(h) == IF h # <<>> /\ h[Len(h)] = "." THEN RStripDots(SubSeq(h, 1, Len(h) - 1)) ELSE h

lenient_netloc(url) == RStripDots(BeforeColon(url))

RECURSIVE suffix_index(_, _)
\* The index (from 0) of the first label of the public suffix of spl, looking
\* from label i on; Len(spl) when no rule matches.
suffix_index(spl, i) ==
    IF i >= Len(spl) THEN Len(spl)
    ELSE LET maybe_tld    == Join(SubSeq(spl, i + 1, Len(spl)), ".")
             wildcard_tld == <<"*",".">> \o Join(SubSeq(spl, i + 2, Len(spl)), ".")
         IN  IF (<<"!">> \o maybe_tld) \in public_suffixes THEN i + 1
             ELSE IF maybe_tld \in public_suffixes THEN i
             ELSE IF wildcard_tld \in public_suffixes THEN i
             ELSE suffix_index(spl, i + 1)

tld_extract(url) ==
    LET labels == Split(lenient_netloc(url), ".")
        k      == suffix_index(labels, 0)
    IN  [subdomain |-> IF k >= 2 THEN Join(SubSeq(labels, 1, k - 1), ".") ELSE <<>>,
         domain    |-> IF k >= 1 THEN labels[k] ELSE <<>>,
         suffix    |-> IF k # Len(labels) THEN Join(SubSeq(labels, k + 1, Len(labels)), ".") ELSE <<>>]

\* f"{extract.domain}.{extract.suffix}"
registered_domain(host) == LET extract == tld_extract(host) IN extract.domain \o <<".">> \o extract.suffix

(***************************************************************************)
(* cookie_spider.py: CookieSpider.is_third_party_cookie                    *)
(***************************************************************************)
\* if cookie_domain.startswith('.'): cookie_domain = cookie_domain[1:]
strip_leading_dot(cookie_domain) ==
    IF StartsWith(cookie_domain, <<".">>) THEN Tail(cookie_domain) ELSE cookie_domain

is_third_party_cookie(cookie_domain, page_domain) ==
    IF cookie_domain = <<>> THEN [is_third_party |-> FALSE, domain_info |-> <<"N","o"," ","c","o","o","k","i","e"," ","d","o","m","a","i","n">>]
    ELSE LET page_registered_domain   == registered_domain(page_domain)
             cookie_registered_domain == registered_domain(strip_leading_dot(cookie_domain))
         IN  [is_third_party |-> page_registered_domain # cookie_registered_domain,
              domain_info |-> <<"P","a","g","e",":"," ">> \o page_registered_domain \o <<","," ","C","o","o","k","i","e",":"," ">> \o cookie_registered_domain]

(***************************************************************************)
(* cookie_spider.py: CookieSpider.identify_tracking_purpose                *)
(***************************************************************************)
analytics_keywords == <<<<"a","n","a","l","y","t","i","c","s">>, <<"g","a">>, <<"_","g","a">>, <<"g","t","m">>, <<"p","i","x","e","l">>, <<"s","t","a","t","s">>, <<"t","r","a","c","k">>, <<"v","i","s","i","t">>>>

ad_keywords == <<<<"a","d">>, <<"a","d","s">>, <<"a","d","v","e","r","t">>, <<"c","a","m","p","a","i","g","n">>, <<"p","r","o","m","o">>, <<"p","r","o","m","o","t","i","o","n">>, <<"m","a","r","k","e","t","i","n","g">>>>

session_keywords == <<<<"s","e","s","s","i","o","n">>, <<"s","i","d">>, <<"u","s","e","r">>, <<"a","u","t","h">>, <<"l","o","g","i","n">>, <<"a","c","c","o","u","n","t">>>>

preference_keywords == <<<<"p","r","e","f">>, <<"s","e","t","t","i","n","g">>, <<"c","o","n","s","e","n","t">>, <<"a","c","c","e","p","t">>, <<"a","g","r","e","e">>>>

functional_keywords == <<<<"f","u","n","c">>, <<"f","e","a","t","u","r","e">>, <<"u","i">>, <<"d","i","s","p","l","a","y">>, <<"l","a","y","o","u","t">>, <<"t","h","e","m","e">>>>

\* any(kw in name_lower for kw in keywords)
AnyKeywordIn(keywords, name_lower) == \E i \in 1..Len(keywords) : Contains(name_lower, keywords[i])

\* name_lower in names
InList(name_lower, names) == \E i \in 1..Len(names) : names[i] = name_lower

\* The second pass: exact membership in the vendor tables.
known_tracker(name_lower) ==
    IF InList(name_lower, <<<<"_","f","b","p">>, <<"f","r">>>>) THEN <<"F","a","c","e","b","o","o","k"," ","T","r","a","c","k","i","n","g">>
    ELSE IF InList(name_lower, <<<<"_","g","i","d">>, <<"_","g","a">>, <<"_","g","a","t">>>>) THEN <<"G","o","o","g","l","e"," ","A","n","a","l","y","t","i","c","s">>
    ELSE IF InList(name_lower, <<<<"_","_","u","t","m","a">>, <<"_","_","u","t","m","b">>, <<"_","_","u","t","m","c">>, <<"_","_","u","t","m","z">>>>) THEN <<"G","o","o","g","l","e"," ","A","n","a","l","y","t","i","c","s"," ","(","L","e","g","a","c","y",")">>
    ELSE IF InList(name_lower, <<<<"_","h","j","i","d">>, <<"_","h","j","S","e","s","s","i","o","n","U","s","e","r">>>>) THEN <<"H","o","t","j","a","r"," ","A","n","a","l","y","t","i","c","s">>
    ELSE IF InList(name_lower, <<<<"_","p","i","n","_","u","n","a","u","t","h">>, <<"_","p","i","n","t","e","r","e","s","t","_","s","e","s","s">>>>) THEN <<"P","i","n","t","e","r","e","s","t"," ","T","r","a","c","k","i","n","g">>
    ELSE IF InList(name_lower, <<<<"_","t","w","i","t","t","e","r","_","s","e","s","s">>, <<"c","t","0">>>>) THEN <<"T","w","i","t","t","e","r"," ","T","r","a","c","k","i","n","g">>
    ELSE <<"U","n","k","n","o","w","n">>

\* The session keywords tested before the advertising keywords.
identify_tracking_purpose_session_first(cookie_name, cookie_value) ==
    LET name_lower == ToLower(cookie_name)
    IN  IF AnyKeywordIn(analytics_keywords, name_lower) THEN <<"A","n","a","l","y","t","i","c","s">>
        ELSE IF AnyKeywordIn(session_keywords, name_lower) THEN <<"S","e","s","s","i","o","n","/","A","u","t","h","e","n","t","i","c","a","t","i","o","n">>
        ELSE IF AnyKeywordIn(ad_keywords, name_lower) THEN <<"A","d","v","e","r","t","i","s","i","n","g">>
        ELSE IF AnyKeywordIn(preference_keywords, name_lower) THEN <<"P","r","e","f","e","r","e","n","c","e","s","/","C","o","n","s","e","n","t">>
        ELSE IF AnyKeywordIn(functional_keywords, name_lower) THEN <<"F","u","n","c","t","i","o","n","a","l">>
        ELSE known_tracker(name_lower)

identify_tracking_purpose(cookie_name, cookie_value) ==
    LET name_lower == ToLower(cookie_name)
    IN  IF AnyKeywordIn(analytics_keywords, name_lower) THEN <<"A","n","a","l","y","t","i","c","s">>
        ELSE IF AnyKeywordIn(ad_keywords, name_lower) THEN <<"A","d","v","e","r","t","i","s","i","n","g">>
        ELSE IF AnyKeywordIn(session_keywords, name_lower) THEN <<"S","e","s","s","i","o","n","/","A","u","t","h","e","n","t","i","c","a","t","i","o","n">>
        ELSE IF AnyKeywordIn(preference_keywords, name_lower) THEN <<"P","r","e","f","e","r","e","n","c","e","s","/","C","o","n","s","e","n","t">>
        ELSE IF AnyKeywordIn(functional_keywords, name_lower) THEN <<"F","u","n","c","t","i","o","n","a","l">>
        ELSE known_tracker(name_lower)

(***************************************************************************)
(* cookie_utils.py: _get_xss_patterns, _check_cookie_for_xss               *)
(*                                                                         *)
(* Each regular expression of the table is matched on the characters of    *)
(* the decoded value, case-insensitively, anywhere in it (pattern.search). *)
(***************************************************************************)
\* [0-9a-fA-F]
HexChars == Chars(<<"0","1","2","3","4","5","6","7","8","9","a","b","c","d","e","f","A","B","C","D","E","F">>)

\* \w
WordChars == Chars(Lower) \cup Chars(Upper) \cup DigitChars \cup {"_"}

\* \s
SpaceChars == {" ", "\t", "\n", "\r"}

\* The value of a hexadecimal digit.
HexValue(c) == IF c \in DigitChars THEN IndexOf(Digits, c) - 1 ELSE IndexOf(<<"a","b","c","d","e","f">>, LowerChar(c)) + 9

\* The printable ASCII characters 0x20 to 0x5F and 0x61 to 0x7E.
AsciiLow == <<" ","!","\"","#","$","%","&","'","(",")","*","+",",","-",".","/","0","1","2","3","4","5","6","7","8","9",":",";","<","=",">","?","@","A","B","C","D","E","F","G","H","I","J","K","L","M","N","O","P","Q","R","S","T","U","V","W","X","Y","Z","[","\\","]","^","_">>

AsciiHigh == <<"a","b","c","d","e","f","g","h","i","j","k","l","m","n","o","p","q","r","s","t","u","v","w","x","y","z","{","|","}","~">>

\* The character a decoded byte stands for.  The grave accent (0x60) and
\* every byte that is not printable ASCII decode to a character that no
\* pattern of the table mentions and that is neither \w nor \s.
ByteChar(b) ==
    IF b >= 32 /\ b <= 95 THEN AsciiLow[b - 31]
    ELSE IF b >= 97 /\ b <= 126 THEN AsciiHigh[b - 96]
    ELSE "?"

RECURSIVE unquote(_)
\* urllib.parse.unquote: every %XX with two hexadecimal digits is replaced by
\* its byte; any other '%' stays.
unquote(s) ==
    IF s = <<>> THEN <<>>
    ELSE IF s[1] = "%" /\ Len(s) >= 3 /\ s[2] \in HexChars /\ s[3] \in HexChars
         THEN <<ByteChar(16 * HexValue(s[2]) + HexValue(s[3]))>> \o unquote(SubSeq(s, 4, Len(s)))
         ELSE <<s[1]>> \o unquote(Tail(s))

\* The literal lit (in lower case) stands at position i of s, in any case.
LitAt(s, i, lit) == i >= 1 /\ i + Len(lit) - 1 <= Len(s) /\ ToLower(SubSeq(s, i, i + Len(lit) - 1)) = lit

WordAt(s, i) == i >= 1 /\ i <= Len(s) /\ s[i] \in WordChars

\* \b between positions i - 1 and i
BoundaryAt(s, i) == WordAt(s, i - 1) # WordAt(s, i)

RECURSIVE Skip(_, _, _)
\* The position after class* matched greedily from position i.
Skip(s, i, class) == IF i <= Len(s) /\ s[i] \in class THEN Skip(s, i + 1, class) ELSE i

CharAt(s, i, c) == i >= 1 /\ i <= Len(s) /\ s[i] = c

\* s has the character c at position i or later.
CharFrom(s, i, c) == \E j \in i..Len(s) : s[j] = c

Positions(s) == 1..Len(s)

\* lit\s*c
LitSpaceChar(s, lit, c) == \E i \in Positions(s) : LitAt(s, i, lit) /\ CharAt(s, Skip(s, i + Len(lit), SpaceChars), c)

\* \blit\s*\(
Call(s, lit) ==
    \E i \in Positions(s) : BoundaryAt(s, i) /\ LitAt(s, i, lit) /\ CharAt(s, Skip(s, i + Len(lit), SpaceChars), "(")

\* <tag[^>]*>
Tag(s, lit) == \E i \in Positions(s) : LitAt(s, i, lit) /\ CharFrom(s, i + Len(lit), ">")

\* lit
Literal(s, lit) == \E i \in Positions(s) : LitAt(s, i, lit)

\* \blit
WordLiteral(s, lit) == \E i \in Positions(s) : BoundaryAt(s, i) /\ LitAt(s, i, lit)

\* \bon\w+\s*=
EventHandler(s) ==
    \E i \in Positions(s) :
        /\ BoundaryAt(s, i)
        /\ LitAt(s, i, <<"o","n">>)
        /\ \E j \in (i + 3)..Skip(s, i + 2, WordChars) : CharAt(s, Skip(s, j, SpaceChars), "=")

\* <img[^>]*\bonerror\b[^>]*>
ImgOnerror(s) ==
    \E i \in Positions(s) :
        /\ LitAt(s, i, <<"<","i","m","g">>)
        /\ \E j \in (i + 4)..Len(s) :
              /\ \A k \in (i + 4)..(j - 1) : s[k] # ">"
              /\ BoundaryAt(s, j)
              /\ LitAt(s, j, <<"o","n","e","r","r","o","r">>)
              /\ BoundaryAt(s, j + 7)
              /\ CharFrom(s, j + 7, ">")

\* &#x[0-9a-fA-F]+;
HexEntity(s) ==
    \E i \in Positions(s) :
        LitAt(s, i, <<"&","#","x">>) /\ Skip(s, i + 3, HexChars) > i + 3 /\ CharAt(s, Skip(s, i + 3, HexChars), ";")

\* &#[0-9]+;
DecimalEntity(s) ==
    \E i \in Positions(s) :
        LitAt(s, i, <<"&","#">>) /\ Skip(s, i + 2, DigitChars) > i + 2 /\ CharAt(s, Skip(s, i + 2, DigitChars), ";")

\* \\x[0-9a-fA-F]{2} and \\u[0-9a-fA-F]{4}
Escape(s, lit, n) ==
    \E i \in Positions(s) :
        LitAt(s, i, lit) /\ i + 1 + n <= Len(s) /\ \A k \in (i + 2)..(i + 1 + n) : s[k] \in HexChars

xss_patterns ==
    << "<script[^>]*>", "javascript\\s*:", "\\bon\\w+\\s*=", "\\beval\\s*\\(", "document\\.cookie",
       "document\\.location", "<img[^>]*\\bonerror\\b[^>]*>", "<iframe[^>]*>", "\\balert\\s*\\(",
       "\\bprompt\\s*\\(", "\\bconfirm\\s*\\(", "\\bdocument\\.write\\s*\\(", "\\bdocument\\.domain",
       "\\blocation\\.href", "\\blocation\\.replace\\s*\\(", "\\bwindow\\.open\\s*\\(", "data:text/html",
       "&#x[0-9a-fA-F]+;", "&#[0-9]+;", "\\\\x[0-9a-fA-F]{2}", "\\\\u[0-9a-fA-F]{4}" >>

\* compiled_patterns[i].search(s)
pattern_search(i, s) ==
    CASE i = 1  -> Tag(s, <<"<","s","c","r","i","p","t">>)
      [] i = 2  -> LitSpaceChar(s, <<"j","a","v","a","s","c","r","i","p","t">>, ":")
      [] i = 3  -> EventHandler(s)
      [] i = 4  -> Call(s, <<"e","v","a","l">>)
      [] i = 5  -> Literal(s, <<"d","o","c","u","m","e","n","t",".","c","o","o","k","i","e">>)
      [] i = 6  -> Literal(s, <<"d","o","c","u","m","e","n","t",".","l","o","c","a","t","i","o","n">>)
      [] i = 7  -> ImgOnerror(s)
      [] i = 8  -> Tag(s, <<"<","i","f","r","a","m","e">>)
      [] i = 9  -> Call(s, <<"a","l","e","r","t">>)
      [] i = 10 -> Call(s, <<"p","r","o","m","p","t">>)
      [] i = 11 -> Call(s, <<"c","o","n","f","i","r","m">>)
      [] i = 12 -> Call(s, <<"d","o","c","u","m","e","n","t",".","w","r","i","t","e">>)
      [] i = 13 -> WordLiteral(s, <<"d","o","c","u","m","e","n","t",".","d","o","m","a","i","n">>)
      [] i = 14 -> WordLiteral(s, <<"l","o","c","a","t","i","o","n",".","h","r","e","f">>)
      [] i = 15 -> Call(s, <<"l","o","c","a","t","i","o","n",".","r","e","p","l","a","c","e">>)
      [] i = 16 -> Call(s, <<"w","i","n","d","o","w",".","o","p","e","n">>)
      [] i = 17 -> Literal(s, <<"d","a","t","a",":","t","e","x","t","/","h","t","m","l">>)
      [] i = 18 -> HexEntity(s)
      [] i = 19 -> DecimalEntity(s)
      [] i = 20 -> Escape(s, <<"\\", "x">>, 2)
      [] i = 21 -> Escape(s, <<"\\", "u">>, 4)

RECURSIVE matched_from_first(_, _)
\* The loop stops at the first pattern that matches.
matched_from_first(i, decoded_value) ==
    IF i > Len(xss_patterns) THEN <<>>
    ELSE IF pattern_search(i, decoded_value) THEN <<xss_patterns[i]>>
    ELSE matched_from_first(i + 1, decoded_value)

RECURSIVE matched_from(_, _)
\* The loop over the table from pattern i on: the matching patterns, in table order.
matched_from(i, decoded_value) ==
    IF i > Len(xss_patterns) THEN <<>>
    ELSE (IF pattern_search(i, decoded_value) THEN <<xss_patterns[i]>> ELSE <<>>)
         \o matched_from(i + 1, decoded_value)

\* The patterns searched in the value as given, not URL-decoded.
check_cookie_for_xss_raw(cookie_value) == matched_from(1, cookie_value)

check_cookie_for_xss(cookie_value) == matched_from(1, unquote(cookie_value))

(***************************************************************************)
(* dict as a tuple of <<key, value>> pairs in insertion order              *)
(***************************************************************************)
\* key in d
DictHas(d, key) == \E i \in 1..Len(d) : d[i][1] = key

\* d.get(key, default)
DictGet(d, key, default) ==
    IF DictHas(d, key) THEN d[CHOOSE i \in 1..Len(d) : d[i][1] = key][2] ELSE default

\* d[key] = value: a new key goes to the end, a known key keeps its place.
DictSet(d, key, value) ==
    IF DictHas(d, key)
    THEN [i \in 1..Len(d) |-> IF d[i][1] = key THEN <<key, value>> ELSE d[i]]
    ELSE Append(d, <<key, value>>)

\* The mapping itself, whatever the insertion order.
Items(d) == {d[i] : i \in 1..Len(d)}

RECURSIVE SortedItems_last(_, _)
\* A sort that is not stable: among equal keys the later item comes first.
SortedItems_last(d, by) ==
    IF d = <<>> THEN <<>>
    ELSE LET col  == IF by < 0 THEN -by ELSE by
             sign == IF by < 0 THEN -1 ELSE 1
             i    == CHOOSE i \in 1..Len(d) :
                        /\ \A j \in 1..Len(d) : sign * d[i][col] <= sign * d[j][col]
                        /\ \A j \in (i + 1)..Len(d) : d[j][col] # d[i][col]
         IN  <<d[i]>> \o SortedItems_last([j \in 1..(Len(d) - 1) |-> IF j < i THEN d[j] ELSE d[j + 1]], by)

RECURSIVE SortedItems(_, _)
\* sorted(d.items(), key=lambda x: x[1], reverse=True) for by = 2 with sign = -1,
\* sorted(d.items(), key=lambda x: x[0]) for by = 1 with sign = 1.  The sort is
\* stable: among equal keys the earlier item comes first.
SortedItems(d, by) ==
    IF d = <<>> THEN <<>>
    ELSE LET col  == IF by < 0 THEN -by ELSE by
             sign == IF by < 0 THEN -1 ELSE 1
             i    == CHOOSE i \in 1..Len(d) :
                        /\ \A j \in 1..Len(d) : sign * d[i][col] <= sign * d[j][col]
                        /\ \A j \in 1..(i - 1) : d[j][col] # d[i][col]
         IN  <<d[i]>> \o SortedItems([j \in 1..(Len(d) - 1) |-> IF j < i THEN d[j] ELSE d[j + 1]], by)

\* items[:n]
FirstN(items, n) == SubSeq(items, 1, IF Len(items) < n THEN Len(items) ELSE n)

TopN == 10

(***************************************************************************)
(* urllib.parse.urlparse(url).netloc                                       *)
(***************************************************************************)
\* The scheme, when the text before the first ':' is one, is cut off; the
\* netloc is what follows '//' up to the next '/', '?' or '#'.
netloc(url) ==
    LET colon  == IndexOf(url, ":")
        scheme == colon > 1 /\ url[1] \in Chars(Lower) \cup Chars(Upper)
                  /\ \A i \in 1..(colon - 1) : url[i] \in WordChars \cup {"+", "-", "."} /\ url[i] # "_"
        rest   == IF scheme THEN SubSeq(url, colon + 1, Len(url)) ELSE url
    IN  IF StartsWith(rest, <<"/","/">>)
        THEN LET after == SubSeq(rest, 3, Len(rest))
             IN  SubSeq(after, 1, Skip(after, 1, Chars(after) \ {"/", "?", "#"}) - 1)
        ELSE <<>>

(***************************************************************************)
(* cookie_utils.py: analyze_cookies                                        *)
(***************************************************************************)
RECURSIVE Sum(_)
Sum(numbers) == IF numbers = <<>> THEN 0 ELSE Head(numbers) + Sum(Tail(numbers))

\* {'None': 0, 'Lax': 0, 'Strict': 0, 'unspecified': 0}
zero_samesite == (<<"N","o","n","e">> :> 0) @@ (<<"L","a","x">> :> 0) @@ (<<"S","t","r","i","c","t">> :> 0) @@ (<<"u","n","s","p","e","c","i","f","i","e","d">> :> 0)

\* The accumulator before the loop over the files.
initial_stats(files) ==
    [total_domains |-> Len(files),
     total_cookies |-> Sum([i \in 1..Len(files) |-> Len(Get(files[i], "cookies", <<>>))]),
     total_localStorage |-> Sum([i \in 1..Len(files) |-> Len(Get(files[i], "localStorage", <<>>))]),
     total_sessionStorage |-> Sum([i \in 1..Len(files) |-> Len(Get(files[i], "sessionStorage", <<>>))]),
     cookies_per_domain |-> <<>>,
     storage_per_domain |-> <<>>,
     common_cookie_names |-> <<>>,
     common_storage_keys |-> <<>>,
     secure_cookies |-> 0,
     httponly_cookies |-> 0,
     third_party_cookies |-> 0,
     session_cookies |-> 0,
     persistent_cookies |-> 0,
     cookie_age_categories |-> [session |-> 0, short_term |-> 0, medium_term |-> 0, long_term |-> 0, expired |-> 0],
     avg_cookie_age_days |-> Rat(0, 1),
     max_cookie_age_days |-> 0,
     cookie_age_distribution |-> <<>>,
     samesite_stats |-> zero_samesite,
     samesite_by_domain |-> <<>>]

\* The second test without its <<"n","o","t">>.
counts_as_third_party_unnegated(cookie_domain, main_domain) ==
    /\ cookie_domain # <<>>
    /\ ~EndsWith(cookie_domain, main_domain)
    /\ EndsWith(main_domain, cookie_domain)

\* cookie_domain and not cookie_domain.endswith(main_domain) and not main_domain.endswith(cookie_domain)
counts_as_third_party(cookie_domain, main_domain) ==
    /\ cookie_domain # <<>>
    /\ ~EndsWith(cookie_domain, main_domain)
    /\ ~EndsWith(main_domain, cookie_domain)

\* <<"i","f"," ","a","g","e","_","i","n","f","o",":">> a dict that is not empty
Truthy(d) == d # None /\ DOMAIN d # {}

\* The age part of the loop body.
count_age(st, cookie) ==
    LET age_info == Get(cookie, "age", <<>>)
    IN  IF ~Truthy(age_info) THEN st
        ELSE IF Get(age_info, "is_session", TRUE)
        THEN [st EXCEPT !.session_cookies = @ + 1, !.cookie_age_categories.session = @ + 1]
        ELSE LET age_days == Get(age_info, "days", None)
                 st1      == [st EXCEPT !.persistent_cookies = @ + 1]
             IN  IF age_days = None THEN st1
                 ELSE LET category    == IF RatLe(age_days, 0) THEN "expired"
                                         ELSE IF RatLt(age_days, 1) THEN "short_term"
                                         ELSE IF RatLe(age_days, 30) THEN "medium_term"
                                         ELSE "long_term"
                          rounded_age == Max(0, RatInt(age_days))
                      IN  [st1 EXCEPT !.cookie_age_categories[category] = @ + 1,
                                      !.cookie_age_distribution =
                                          DictSet(@, rounded_age, DictGet(@, rounded_age, 0) + 1)]

\* The bucket taken from the value as written, in one letter case only.
samesite_bucket_exact(cookie) ==
    LET samesite == Get(cookie, "samesite", <<>>)
    IN  IF samesite \in {<<"N","o","n","e">>, <<"L","a","x">>, <<"S","t","r","i","c","t">>} THEN samesite ELSE <<"u","n","s","p","e","c","i","f","i","e","d">>

\* The SameSite bucket of a cookie.
samesite_bucket(cookie) ==
    LET samesite == Get(cookie, "samesite", <<>>)
    IN  IF samesite = <<>> THEN <<"u","n","s","p","e","c","i","f","i","e","d">>
        ELSE IF ToLower(samesite) \notin {<<"n","o","n","e">>, <<"l","a","x">>, <<"s","t","r","i","c","t">>} THEN <<"u","n","s","p","e","c","i","f","i","e","d">>
        ELSE Capitalize(samesite)

\* The body of <<"f","o","r"," ","c","o","o","k","i","e"," ","i","n"," ","c","o","o","k","i","e","s">>.
analyze_cookie(st, domain, main_domain, cookie) ==
    LET name     == Get(cookie, "name", <<>>)
        st1      == [st EXCEPT
                        !.common_cookie_names = DictSet(@, name, DictGet(@, name, 0) + 1),
                        !.secure_cookies = IF Get(cookie, "secure", FALSE) THEN @ + 1 ELSE @,
                        !.httponly_cookies = IF Get(cookie, "httponly", FALSE) THEN @ + 1 ELSE @,
                        !.third_party_cookies =
                            IF counts_as_third_party(Get(cookie, "domain", <<>>), main_domain) THEN @ + 1 ELSE @]
        st2      == count_age(st1, cookie)
        samesite == samesite_bucket(cookie)
        by_dom   == DictGet(st2.samesite_by_domain, domain, zero_samesite)
    IN  [st2 EXCEPT !.samesite_stats[samesite] = @ + 1,
                    !.samesite_by_domain = DictSet(@, domain, [by_dom EXCEPT ![samesite] = @ + 1])]

RECURSIVE count_keys(_, _, _)
\* for key in storage: common_storage_keys[f'{prefix}:{key}'] += 1
count_keys(table, prefix, storage) ==
    IF storage = <<>> THEN table
    ELSE LET key == prefix \o <<":">> \o Head(storage)
         IN  count_keys(DictSet(table, key, DictGet(table, key, 0) + 1), prefix, Tail(storage))

RECURSIVE analyze_cookie_list(_, _, _, _)
analyze_cookie_list(st, domain, main_domain, cookies) ==
    IF cookies = <<>> THEN st
    ELSE analyze_cookie_list(analyze_cookie(st, domain, main_domain, Head(cookies)), domain, main_domain, Tail(cookies))

\* The body of <<"f","o","r"," ","d","a","t","a"," ","i","n"," ","c","o","o","k","i","e","_","f","i","l","e","s">>.
analyze_file(st, data) ==
    LET domain          == Get(data, "url", <<"u","n","k","n","o","w","n">>)
        cookies         == Get(data, "cookies", <<>>)
        local_storage   == Get(data, "localStorage", <<>>)
        session_storage == Get(data, "sessionStorage", <<>>)
        main_domain     == IF "url" \in DOMAIN data
                           THEN Join(LastN(Split(netloc(domain), "."), 2), ".")
                           ELSE <<"u","n","k","n","o","w","n">>
        st1 == [st EXCEPT !.cookies_per_domain = DictSet(@, domain, Len(cookies)),
                          !.storage_per_domain = DictSet(@, domain, Len(local_storage) + Len(session_storage))]
        st2 == analyze_cookie_list(st1, domain, main_domain, cookies)
    IN  [st2 EXCEPT !.common_storage_keys =
            count_keys(count_keys(@, <<"l","o","c","a","l","S","t","o","r","a","g","e">>, local_storage), <<"s","e","s","s","i","o","n","S","t","o","r","a","g","e">>, session_storage)]

RECURSIVE analyze_files(_, _)
analyze_files(st, files) == IF files = <<>> THEN st ELSE analyze_files(analyze_file(st, Head(files)), Tail(files))

\* The statistics after the loop: the rankings, the average and the maximum age.
finish_stats(st) ==
    LET dist  == st.cookie_age_distribution
        ages  == {dist[i][1] : i \in {j \in 1..Len(dist) : dist[j][1] > 0}}
        total == Sum([i \in 1..Len(dist) |-> IF dist[i][1] > 0 THEN dist[i][1] * dist[i][2] ELSE 0])
        n     == Sum([i \in 1..Len(dist) |-> IF dist[i][1] > 0 THEN dist[i][2] ELSE 0])
    IN  [st EXCEPT
            !.common_cookie_names = FirstN(SortedItems(@, -2), TopN),
            !.common_storage_keys = FirstN(SortedItems(@, -2), TopN),
            !.avg_cookie_age_days = IF n > 0 THEN Rat(total, n) ELSE @,
            !.max_cookie_age_days = IF n > 0 THEN CHOOSE a \in ages : \A b \in ages : b <= a ELSE @,
            !.cookie_age_distribution = SortedItems(@, 1)]

\* The result for an empty list of files has the field domain_analysis in
\* place of cookie_age_distribution.
empty_stats ==
    [total_domains |-> 0, total_cookies |-> 0, total_localStorage |-> 0, total_sessionStorage |-> 0,
     cookies_per_domain |-> <<>>, storage_per_domain |-> <<>>, common_cookie_names |-> <<>>,
     common_storage_keys |-> <<>>, secure_cookies |-> 0, httponly_cookies |-> 0,
     third_party_cookies |-> 0, session_cookies |-> 0, persistent_cookies |-> 0,
     cookie_age_categories |-> [session |-> 0, short_term |-> 0, medium_term |-> 0, long_term |-> 0, expired |-> 0],
     avg_cookie_age_days |-> Rat(0, 1), max_cookie_age_days |-> 0, domain_analysis |-> <<>>,
     samesite_stats |-> zero_samesite, samesite_by_domain |-> <<>>]

analyze_cookies(files) ==
    IF files = <<>> THEN empty_stats ELSE finish_stats(analyze_files(initial_stats(files), files))

\* The cookie is counted for the pair, but not in the global count of its
\* third-party domain.
count_relationship_pair_only(st, first_party, third_party, cookie, with_purpose) ==
    LET rel     == DictGet(st.domain_relationships, first_party, <<>>)
        entry   == DictGet(rel.third_parties, third_party, [count |-> 0, purposes |-> {}, cookie_names |-> <<>>])
        purpose == Get(cookie, "tracking_purpose", <<"U","n","k","n","o","w","n">>)
        entry1  == [count |-> entry.count + 1,
                    purposes |-> IF with_purpose THEN entry.purposes \cup {purpose} ELSE entry.purposes,
                    cookie_names |-> Append(entry.cookie_names, Get(cookie, "name", <<"u","n","k","n","o","w","n">>))]
        rel1    == [third_parties |-> DictSet(rel.third_parties, third_party, entry1),
                    total_third_party_cookies |-> rel.total_third_party_cookies + 1]
        by_tp   == DictGet(st.third_party_purposes, third_party, <<>>)
    IN  [st EXCEPT
            !.domain_relationships = DictSet(@, first_party, rel1),
            !.third_party_domains = DictSet(@, third_party, DictGet(@, third_party, 0)),
            !.third_party_purposes =
                IF with_purpose THEN DictSet(@, third_party, DictSet(by_tp, purpose, DictGet(by_tp, purpose, 0) + 1))
                ELSE @]

(***************************************************************************)
(* cookie_utils.py: analyze_domain_relationships                           *)
(***************************************************************************)
\* One cookie is counted for the pair first party -> third party; the purpose
\* is recorded on the pre-tagged path only.
count_relationship(st, first_party, third_party, cookie, with_purpose) ==
    LET rel     == DictGet(st.domain_relationships, first_party, <<>>)
        entry   == DictGet(rel.third_parties, third_party, [count |-> 0, purposes |-> {}, cookie_names |-> <<>>])
        purpose == Get(cookie, "tracking_purpose", <<"U","n","k","n","o","w","n">>)
        entry1  == [count |-> entry.count + 1,
                    purposes |-> IF with_purpose THEN entry.purposes \cup {purpose} ELSE entry.purposes,
                    cookie_names |-> Append(entry.cookie_names, Get(cookie, "name", <<"u","n","k","n","o","w","n">>))]
        rel1    == [third_parties |-> DictSet(rel.third_parties, third_party, entry1),
                    total_third_party_cookies |-> rel.total_third_party_cookies + 1]
        by_tp   == DictGet(st.third_party_purposes, third_party, <<>>)
    IN  [st EXCEPT
            !.domain_relationships = DictSet(@, first_party, rel1),
            !.third_party_domains = DictSet(@, third_party, DictGet(@, third_party, 0) + 1),
            !.third_party_purposes =
                IF with_purpose THEN DictSet(@, third_party, DictSet(by_tp, purpose, DictGet(by_tp, purpose, 0) + 1))
                ELSE @]

\* The body of <<"f","o","r"," ","c","o","o","k","i","e"," ","i","n"," ","t","h","i","r","d","_","p","a","r","t","y","_","c","o","o","k","i","e","s">>.
relate_tagged_cookie(st, first_party, cookie) ==
    LET cookie_domain == Get(cookie, "domain", <<>>)
        third_party   == registered_domain(strip_leading_dot(cookie_domain))
    IN  IF cookie_domain = <<>> \/ third_party = first_party THEN st
        ELSE count_relationship(st, first_party, third_party, cookie, TRUE)

\* The body of <<"f","o","r"," ","c","o","o","k","i","e"," ","i","n"," ","d","a","t","a",".","g","e","t","(","'","c","o","o","k","i","e","s","'",","," ","[","]",")">>: a cookie that carries
\* is_third_party keeps its leading dot and is not compared with the page.
relate_cookie(st, first_party, cookie) ==
    LET cookie_domain == Get(cookie, "domain", <<>>)
        tagged        == Get(cookie, "is_third_party", FALSE)
        domain        == IF tagged THEN cookie_domain ELSE strip_leading_dot(cookie_domain)
        third_party   == registered_domain(domain)
    IN  IF cookie_domain = <<>> THEN st
        ELSE IF tagged \/ third_party # first_party
        THEN count_relationship(st, first_party, third_party, cookie, FALSE)
        ELSE st

RECURSIVE relate_cookies(_, _, _, _)
relate_cookies(st, first_party, cookies, tagged) ==
    IF cookies = <<>> THEN st
    ELSE relate_cookies(IF tagged THEN relate_tagged_cookie(st, first_party, Head(cookies))
                        ELSE relate_cookie(st, first_party, Head(cookies)),
                        first_party, Tail(cookies), tagged)

\* The body of <<"f","o","r"," ","d","a","t","a"," ","i","n"," ","c","o","o","k","i","e","_","f","i","l","e","s">>.
relate_file(st, data) ==
    LET first_party         == registered_domain(netloc(Get(data, "url", <<"u","n","k","n","o","w","n">>)))
        third_party_cookies == Get(data, "third_party_cookies", <<>>)
        st1 == IF DictHas(st.domain_relationships, first_party) THEN st
               ELSE [st EXCEPT !.domain_relationships =
                        DictSet(@, first_party, [third_parties |-> <<>>, total_third_party_cookies |-> 0])]
    IN  IF third_party_cookies # <<>> THEN relate_cookies(st1, first_party, third_party_cookies, TRUE)
        ELSE IF "cookies" \in DOMAIN data THEN relate_cookies(st1, first_party, data.cookies, FALSE)
        ELSE st1

RECURSIVE relate_files(_, _)
relate_files(st, files) == IF files = <<>> THEN st ELSE relate_files(relate_file(st, Head(files)), Tail(files))

\* Every purpose recorded in the graph.
recorded_purposes(st) ==
    LET dr == st.domain_relationships
    IN  UNION {UNION {dr[i][2].third_parties[j][2].purposes : j \in 1..Len(dr[i][2].third_parties)} : i \in 1..Len(dr)}

\* The sequences that hold every element of S once.
Orders(S) == {o \in [1..Cardinality(S) -> S] : \A i, j \in 1..Cardinality(S) : o[i] = o[j] => i = j}

\* list(purposes): the elements of the set in its iteration order, which the
\* hashes of the strings fix for the run; hash_order lists the purposes of the
\* run in that order.
list_of_set(purposes, hash_order) == SelectSeq(hash_order, LAMBDA p : p \in purposes)

\* The statistics after the loop: purposes as lists, the ten top trackers.
finish_relationships(st, hash_order) ==
    LET dr      == st.domain_relationships
        listed(tps) == [j \in 1..Len(tps) |->
                          <<tps[j][1], [tps[j][2] EXCEPT !.purposes = list_of_set(@, hash_order)]>>]
        ranked  == FirstN(SortedItems(st.third_party_domains, -2), TopN)
    IN  [st EXCEPT
            !.domain_relationships =
                [i \in 1..Len(dr) |-> <<dr[i][1], [dr[i][2] EXCEPT !.third_parties = listed(@)]>>],
            !.top_trackers = [i \in 1..Len(ranked) |-> [domain |-> ranked[i][1], count |-> ranked[i][2]]]]

empty_relationships ==
    [domain_relationships |-> <<>>, third_party_domains |-> <<>>, third_party_purposes |-> <<>>, top_trackers |-> <<>>]

\* The graph before its purposes are listed.
related(files) == relate_files(empty_relationships, files)

analyze_domain_relationships(files, hash_order) ==
    IF files = <<>> THEN empty_relationships ELSE finish_relationships(related(files), hash_order)

(***************************************************************************)
(* cookie_spider.py: CookieSpider.process_selenium_page, the snapshot that *)
(* the collector writes for one page                                       *)
(***************************************************************************)
\* cookie_info for one cookie of driver.get_cookies()
cookie_info(cookie, main_domain, current_time) ==
    LET party == is_third_party_cookie(Get(cookie, "domain", <<>>), main_domain)
    IN  [name |-> Get(cookie, "name", <<>>),
         value |-> Get(cookie, "value", <<>>),
         domain |-> Get(cookie, "domain", <<>>),
         path |-> Get(cookie, "path", <<"/">>),
         expires |-> Get(cookie, "expiry", <<>>),
         secure |-> Get(cookie, "secure", FALSE),
         httponly |-> Get(cookie, "httpOnly", FALSE),
         samesite |-> Get(cookie, "sameSite", <<>>),
         age |-> calculate_cookie_age(Get(cookie, "expiry", None), current_time),
         is_third_party |-> party.is_third_party,
         domain_info |-> party.domain_info,
         tracking_purpose |-> identify_tracking_purpose(Get(cookie, "name", <<>>), Get(cookie, "value", <<>>))]

\* data_to_save; a storage is the tuple of its keys.
process_selenium_page(url, selenium_cookies, local_storage, session_storage, current_time) ==
    LET cookie_data == [i \in 1..Len(selenium_cookies) |-> cookie_info(selenium_cookies[i], netloc(url), current_time)]
        third_party_cookies == SelectSeq(cookie_data, LAMBDA c : c.is_third_party)
    IN  [url |-> url,
         cookies |-> cookie_data,
         localStorage |-> local_storage,
         sessionStorage |-> session_storage,
         source |-> <<"s","e","l","e","n","i","u","m">>,
         third_party_cookies |-> third_party_cookies,
         third_party_count |-> Len(third_party_cookies)]

(***************************************************************************)
(* cookie_utils.py: analyze_xss_vulnerabilities                            *)
(***************************************************************************)
\* _initialize_xss_stats(), also the result for an empty list of files
initialize_xss_stats ==
    [total_cookies_analyzed |-> 0, potentially_vulnerable_cookies |-> 0,
     xss_findings |-> <<>>, vulnerable_domains |-> <<>>]

update_xss_stats(st, domain, cookie, cookie_name, cookie_domain, matched_patterns) ==
    LET entry   == DictGet(st.vulnerable_domains, domain, [count |-> 0, cookies |-> <<>>])
        found   == [name |-> cookie_name, matched_patterns |-> matched_patterns,
                    httponly |-> Get(cookie, "httpOnly", FALSE), secure |-> Get(cookie, "secure", FALSE)]
        finding == [domain |-> domain, cookie_domain |-> cookie_domain, cookie_name |-> cookie_name,
                    matched_patterns |-> matched_patterns,
                    httponly |-> Get(cookie, "httpOnly", FALSE), secure |-> Get(cookie, "secure", FALSE),
                    path |-> Get(cookie, "path", <<"/">>), sameSite |-> Get(cookie, "sameSite", <<"N","o","n","e">>)]
    IN  [st EXCEPT
            !.potentially_vulnerable_cookies = @ + 1,
            !.vulnerable_domains =
                DictSet(@, domain, [count |-> entry.count + 1, cookies |-> Append(entry.cookies, found)]),
            !.xss_findings = Append(@, finding)]

RECURSIVE process_cookies_for_xss(_, _, _)
\* _process_cookies_for_xss over the cookies that are left
process_cookies_for_xss(cookies, domain, st) ==
    IF cookies = <<>> THEN st
    ELSE LET cookie           == Head(cookies)
             cookie_value     == Get(cookie, "value", <<>>)
             matched_patterns == check_cookie_for_xss(cookie_value)
             st1              == [st EXCEPT !.total_cookies_analyzed = @ + 1]
         IN  process_cookies_for_xss(Tail(cookies), domain,
                IF cookie_value = <<>> \/ matched_patterns = <<>> THEN st1
                ELSE update_xss_stats(st1, domain, cookie, Get(cookie, "name", <<"u","n","k","n","o","w","n">>),
                                      Get(cookie, "domain", domain), matched_patterns))

RECURSIVE analyze_xss_files(_, _)
\* The loop <<"f","o","r"," ","d","a","t","a"," ","i","n"," ","c","o","o","k","i","e","_","f","i","l","e","s">>.
analyze_xss_files(st, files) ==
    IF files = <<>> THEN st
    ELSE analyze_xss_files(
            process_cookies_for_xss(Get(Head(files), "cookies", <<>>), netloc(Get(Head(files), "url", <<"u","n","k","n","o","w","n">>)), st),
            Tail(files))

analyze_xss_vulnerabilities(files) == analyze_xss_files(initialize_xss_stats, files)

(***************************************************************************)
(* Exceptions of the analysis functions on values of another JSON type     *)
(***************************************************************************)
\* The value is JSON null.
IsNull(v) == ToString(DOMAIN v) = ToString({"none"})

\* The value is a JSON number other than 0, which is truthy and has none of
\* the methods of str.
IsNumber(v) == ToString(DOMAIN v) = ToString({"num"}) /\ v.num # 0

\* analyze_cookies raises: len(None) for cookies = null, samesite.lower() of
\* a number, age_days <= 0 of a string.
analyze_cookies_raises(files) ==
    \E i \in 1..Len(files) :
        LET cookies == Get(files[i], "cookies", <<>>)
        IN  \/ IsNull(cookies)
            \/ \E j \in 1..Len(cookies) :
                  LET age_info == Get(cookies[j], "age", <<>>)
                  IN  \/ IsNumber(Get(cookies[j], "samesite", <<>>))
                      \/ /\ Truthy(age_info)
                         /\ ~Get(age_info, "is_session", TRUE)
                         /\ IsStr(Get(age_info, "days", None))

\* analyze_xss_vulnerabilities raises: iteration over None for cookies = null,
\* pattern.search of a number (unquote's TypeError is caught, search's is not).
analyze_xss_raises(files) ==
    \E i \in 1..Len(files) :
        LET cookies == Get(files[i], "cookies", <<>>)
        IN  \/ IsNull(cookies)
            \/ \E j \in 1..Len(cookies) : IsNumber(Get(cookies[j], "value", <<>>))

Idle == /\ cookie_files = <<>>
        /\ stats = <<>>
        /\ relationships = <<>>
        /\ directory = <<>>
        /\ xss_stats = <<>>
        /\ spider = <<>>

\* A classifier is about to be called with arguments a.
Called(a) ==
    /\ pc = "call"
    /\ args = a
    /\ ret = <<>>
    /\ Idle

\* The function fn has returned; its result is in ret.
Returned(fn) == pc = "return" /\ args.fn = fn

\* The classifier returns r.
Return(r) ==
    /\ pc' = "return"
    /\ ret' = r
    /\ UNCHANGED <<args, cookie_files, stats, relationships, directory, xss_stats, spider>>

(***************************************************************************)
(* The domain resolver and the third-party classifier on their own.        *)
(***************************************************************************)
MaxHostLabels == 4

MaxPartyLabels == 3

\* Every tuple over S of length at most n.
SeqsUpTo(S, n) == UNION {[1..k -> S] : k \in 0..n}

\* Hosts of at most MaxHostLabels labels, with and without a port.
Hostnames ==
    {Join(ls, ".") \o port :
        ls \in SeqsUpTo({<<>>, <<"w","w","w">>, <<"s","h","o","p">>, <<"e","x","a","m","p","l","e">>, <<"c","o">>, <<"u","k">>, <<"c","o","m">>}, MaxHostLabels),
        port \in {<<>>, <<":","8","0","8","0">>}}

\* Cookie domains of at most MaxPartyLabels labels; an empty first label is a leading dot.
CookieDomains ==
    {Join(ls, ".") : ls \in SeqsUpTo({<<>>, <<"a">>, <<"w","w","w">>, <<"c","o","m">>, <<"c","o">>, <<"u","k">>, <<"c","k">>}, MaxPartyLabels)}

PageDomains == {<<"a",".","c","o","m">>, <<"w","w","w",".","a",".","c","o","m">>, <<"a",".","c","o",".","u","k">>, <<"t","r","a","c","k","e","r",".","n","e","t">>}

InitDomain ==
    \/ \E h \in Hostnames : Called([fn |-> "extract_base_domain", domain |-> h])
    \/ \E c \in CookieDomains : \E p \in PageDomains \cup {c} :
          Called([fn |-> "is_third_party_cookie", cookie_domain |-> c, page_domain |-> p])

\* click_interactive_elements: the base domain of a host is computed.
ExtractBaseDomain ==
    /\ pc = "call"
    /\ args.fn = "extract_base_domain"
    /\ Return(extract_base_domain(args.domain))

\* process_selenium_page: one cookie is classified against the page's netloc.
IsThirdPartyCookie ==
    /\ pc = "call"
    /\ args.fn = "is_third_party_cookie"
    /\ Return(is_third_party_cookie(args.cookie_domain, args.page_domain))

SpecDomain == InitDomain /\ [][ExtractBaseDomain \/ IsThirdPartyCookie]_vars

\* C6: registered_domain strips a port, splits on '.', and returns the last
\* two labels, or the last three exactly when the second-to-last label is one
\* of co, com, org, net, edu, gov and the last one of uk, au, nz, jp; fewer
\* than two labels come back unchanged; www.example.com gives example.com
\* and shop.example.co.uk gives example.co.uk.
C6_RegisteredDomain ==
    Returned("extract_base_domain") =>
        LET host   == BeforeColon(args.domain)
            labels == Split(host, ".")
            n      == Len(labels)
            three  == /\ n >= 2
                      /\ labels[n - 1] \in {<<"c","o">>, <<"c","o","m">>, <<"o","r","g">>, <<"n","e","t">>, <<"e","d","u">>, <<"g","o","v">>}
                      /\ labels[n] \in {<<"u","k">>, <<"a","u">>, <<"n","z">>, <<"j","p">>}
        IN  /\ n < 2 => ret = host
            /\ n >= 2 /\ three => ret = Join(LastN(labels, 3), ".")
            /\ n >= 2 /\ ~three => ret = Join(LastN(labels, 2), ".")
            /\ args.domain = <<"w","w","w",".","e","x","a","m","p","l","e",".","c","o","m">> => ret = <<"e","x","a","m","p","l","e",".","c","o","m">>
            /\ args.domain = <<"s","h","o","p",".","e","x","a","m","p","l","e",".","c","o",".","u","k">> => ret = <<"e","x","a","m","p","l","e",".","c","o",".","u","k">>

C6_Witness ==
    /\ Returned("extract_base_domain")
    /\ args.domain = <<"s","h","o","p",".","e","x","a","m","p","l","e",".","c","o",".","u","k">>
    /\ ret = <<"e","x","a","m","p","l","e",".","c","o",".","u","k">>

\* C7: a non-empty domain is never a third party of itself:
\* classify_party(d, d) is (false, _), also for d with a leading dot.
C7_SamePartyOnEquality ==
    (Returned("is_third_party_cookie") /\ args.cookie_domain = args.page_domain /\ args.cookie_domain # <<>>)
        => ret.is_third_party = FALSE

(***************************************************************************)
(* The tracking-purpose classifier on its own.                             *)
(***************************************************************************)
CookieNames ==
    {<<"_","f","b","p">>, <<"f","r">>, <<"_","g","i","d">>, <<"_","g","a">>, <<"_","g","a","t">>, <<"_","_","u","t","m","a">>, <<"_","_","u","t","m","b">>, <<"_","_","u","t","m","c">>, <<"_","_","u","t","m","z">>, <<"_","h","j","i","d">>,
     <<"_","h","j","S","e","s","s","i","o","n","U","s","e","r">>, <<"_","p","i","n","_","u","n","a","u","t","h">>, <<"_","p","i","n","t","e","r","e","s","t","_","s","e","s","s">>, <<"_","t","w","i","t","t","e","r","_","s","e","s","s">>, <<"c","t","0">>,
     <<>>, <<"x">>, <<"s","i","d">>, <<"S","I","D">>, <<"s","e","s","s","i","o","n","_","i","d">>, <<"a","d","_","i","d">>, <<"p","r","o","m","o">>, <<"p","r","e","f">>, <<"t","h","e","m","e">>, <<"u","i","_","l","a","n","g">>, <<"l","a","n","g">>,
     <<"c","s","r","f","t","o","k","e","n">>, <<"A","N","A","L","Y","T","I","C","S">>, <<"T","r","a","c","k">>, <<"a","c","c","o","u","n","t">>, <<"d","i","s","p","l","a","y">>, <<"a","c","c","e","p","t">>, <<"_","G","A">>, <<"i","d">>, <<"P","H","P","S","E","S","S","I","D">>,
     <<"u","s","e","r","_","a","d","s">>, <<"A","d","_","S","t","a","t","s">>, <<"u","i","_","c","o","n","s","e","n","t">>, <<"l","o","g","i","n","_","t","h","e","m","e">>, <<"_","F","B","P">>, <<"C","T","0">>, <<"f","r","2">>, <<"x","_","g","i","d">>}

CookieValues == {<<>>, <<"1">>, <<"G","A","1",".","2",".","3">>}

InitPurpose ==
    \E n \in CookieNames, v \in CookieValues :
        Called([fn |-> "identify_tracking_purpose", cookie_name |-> n, cookie_value |-> v])

\* process_selenium_page: one cookie's tracking purpose is identified.
IdentifyTrackingPurpose ==
    /\ pc = "call"
    /\ args.fn = "identify_tracking_purpose"
    /\ Return(identify_tracking_purpose(args.cookie_name, args.cookie_value))

SpecPurpose == InitPurpose /\ [][IdentifyTrackingPurpose]_vars

\* C5: the cookie name _ga is classified "Google Analytics", whatever the
\* cookie value.
C5_GaIsGoogleAnalytics ==
    (Returned("identify_tracking_purpose") /\ args.cookie_name = <<"_","g","a">>) => ret = <<"G","o","o","g","l","e"," ","A","n","a","l","y","t","i","c","s">>

\* C15: the purpose is the label of the first of the keyword sets
\* Analytics, Advertising, Session/Authentication, Preferences/Consent,
\* Functional with a keyword inside the lower-cased name; with no such set it
\* is the label of the vendor table that holds the lower-cased name as an
\* entry, and "Unknown" when no table does.
C15_PurposeOrder ==
    Returned("identify_tracking_purpose") =>
        LET name    == ToLower(args.cookie_name)
            sets    == <<analytics_keywords, ad_keywords, session_keywords, preference_keywords,
                         functional_keywords>>
            labels  == <<<<"A","n","a","l","y","t","i","c","s">>, <<"A","d","v","e","r","t","i","s","i","n","g">>, <<"S","e","s","s","i","o","n","/","A","u","t","h","e","n","t","i","c","a","t","i","o","n">>, <<"P","r","e","f","e","r","e","n","c","e","s","/","C","o","n","s","e","n","t">>,
                         <<"F","u","n","c","t","i","o","n","a","l">>>>
            hits    == {i \in 1..5 : \E k \in 1..Len(sets[i]) : Contains(name, sets[i][k])}
            vendors == {<<{<<"_","f","b","p">>, <<"f","r">>}, <<"F","a","c","e","b","o","o","k"," ","T","r","a","c","k","i","n","g">>>>,
                        <<{<<"_","g","i","d">>, <<"_","g","a">>, <<"_","g","a","t">>}, <<"G","o","o","g","l","e"," ","A","n","a","l","y","t","i","c","s">>>>,
                        <<{<<"_","_","u","t","m","a">>, <<"_","_","u","t","m","b">>, <<"_","_","u","t","m","c">>, <<"_","_","u","t","m","z">>}, <<"G","o","o","g","l","e"," ","A","n","a","l","y","t","i","c","s"," ","(","L","e","g","a","c","y",")">>>>,
                        <<{<<"_","h","j","i","d">>, <<"_","h","j","S","e","s","s","i","o","n","U","s","e","r">>}, <<"H","o","t","j","a","r"," ","A","n","a","l","y","t","i","c","s">>>>,
                        <<{<<"_","p","i","n","_","u","n","a","u","t","h">>, <<"_","p","i","n","t","e","r","e","s","t","_","s","e","s","s">>}, <<"P","i","n","t","e","r","e","s","t"," ","T","r","a","c","k","i","n","g">>>>,
                        <<{<<"_","t","w","i","t","t","e","r","_","s","e","s","s">>, <<"c","t","0">>}, <<"T","w","i","t","t","e","r"," ","T","r","a","c","k","i","n","g">>>>}
        IN  /\ \A i \in hits : (\A j \in hits : i <= j) => ret = labels[i]
            /\ hits = {} => \A v \in vendors : name \in v[1] => ret = v[2]
            /\ (hits = {} /\ \A v \in vendors : name \notin v[1]) => ret = <<"U","n","k","n","o","w","n">>

C15_Witness ==
    /\ Returned("identify_tracking_purpose")
    /\ args.cookie_name = <<"u","s","e","r","_","a","d","s">>
    /\ ret = <<"A","d","v","e","r","t","i","s","i","n","g">>

(***************************************************************************)
(* The XSS scan on its own: a value is scanned, and scanned again.         *)
(***************************************************************************)
MaxFragments == 3

\* Values made of at most MaxFragments fragments.
XssValues ==
    {Concat(fs) :
        fs \in SeqsUpTo({<<"<","s","c","r","i","p","t",">">>, <<"a","l","e","r","t","(","1",")">>, <<"<","/","s","c","r","i","p","t",">">>, <<"%","3","C","s","c","r","i","p","t","%","3","E">>, <<"<","i","m","g"," ">>, <<"o","n","e","r","r","o","r","=","x">>,
                         <<">">>, <<" ">>, <<"&","#","x","4","1",";">>}, MaxFragments)}

InitXss == \E v \in XssValues : Called([fn |-> "_check_cookie_for_xss", cookie_value |-> v])

\* _process_cookies_for_xss: one cookie value is scanned.
CheckCookieForXss ==
    /\ pc = "call"
    /\ args.fn = "_check_cookie_for_xss"
    /\ Return(check_cookie_for_xss(args.cookie_value))

\* The same value is scanned a second time; both results are kept.
CheckCookieForXssAgain ==
    /\ pc = "return"
    /\ args.fn = "_check_cookie_for_xss"
    /\ pc' = "rescanned"
    /\ ret' = [first |-> ret, second |-> check_cookie_for_xss(args.cookie_value)]
    /\ UNCHANGED <<args, cookie_files, stats, relationships, directory, xss_stats, spider>>

SpecXss == InitXss /\ [][CheckCookieForXss \/ CheckCookieForXssAgain]_vars

\* p is one of the entries of the list l
InSeq(p, l) == \E i \in 1..Len(l) : l[i] = p

C16_EveryMatchInOrder ==
    Returned("_check_cookie_for_xss") =>
        LET decoded == unquote(args.cookie_value)
            found   == {i \in 1..Len(xss_patterns) : pattern_search(i, decoded)}
            pos(p)  == CHOOSE i \in 1..Len(xss_patterns) : xss_patterns[i] = p
        IN  /\ \A i \in 1..Len(xss_patterns) : i \in found <=> InSeq(xss_patterns[i], ret)
            /\ \A j \in 1..Len(ret) : InSeq(ret[j], xss_patterns)
            /\ \A j, k \in 1..Len(ret) : j < k => pos(ret[j]) < pos(ret[k])
            /\ Len(ret) = Cardinality(found)
            /\ ret = <<>> <=> found = {}

C16_Witness ==
    /\ Returned("_check_cookie_for_xss")
    /\ args.cookie_value = <<"%","3","C","s","c","r","i","p","t","%","3","E","a","l","e","r","t","(","1",")">>
    /\ ret = <<"<script[^>]*>", "\\balert\\s*\\(">>

InitAge ==
    \E e \in Expiries, now \in Times :
        Called([fn |-> "calculate_cookie_age", expiry_timestamp |-> e, current_time |-> now])

\* process_selenium_page / parse_without_selenium: one cookie's age is computed.
CalculateCookieAge ==
    /\ pc = "call"
    /\ args.fn = "calculate_cookie_age"
    /\ Return(calculate_cookie_age(args.expiry_timestamp, args.current_time))

SpecAge == InitAge /\ [][CalculateCookieAge]_vars

\* The call whose result is in ret was cookie_age(expiry, now) of a number
\* expiry with expiry - now = seconds.
AgeCalledWith(seconds) ==
    /\ Returned("calculate_cookie_age")
    /\ IsNum(args.expiry_timestamp)
    /\ args.expiry_timestamp.num # 0
    /\ args.expiry_timestamp.num - args.current_time = seconds

\* C9: the thresholds of the readable age are strict: exactly one day
\* (86400 s) reads "1 day" while 86399 s is still in hours, exactly 30 days
\* reads in months and exactly 365 days in years; one second less is still
\* in the regime below.
C9_AgeBoundaries ==
    /\ AgeCalledWith(SecondsPerDay) => ret.readable = "1 day"
    /\ AgeCalledWith(SecondsPerDay - 1) => ret.readable = "23 hours"
    /\ AgeCalledWith(DaysPerMonth * SecondsPerDay) => ret.readable = "1 month"
    /\ AgeCalledWith(DaysPerMonth * SecondsPerDay - 1) => ret.readable = "29 days"
    /\ AgeCalledWith(DaysPerYear * SecondsPerDay) => ret.readable = "1 year"
    /\ AgeCalledWith(DaysPerYear * SecondsPerDay - 1) => ret.readable = "12 months"

C9_Witness == AgeCalledWith(SecondsPerDay) /\ ret.readable = "1 day"

\* No expiry was present: it is None, or a string float() rejects.
NoExpiryPresent(e) == e = None \/ (IsStr(e) /\ ~FloatParses(e.str))

\* C10: is_session is true iff no expiry was present; every numeric expiry,
\* 0 included, gives is_session = false, seconds = expiry - now,
\* days = seconds / 86400 and readable = "Expired" exactly when seconds <= 0.
C10_AgeInfoInvariant ==
    Returned("calculate_cookie_age") =>
        LET e   == args.expiry_timestamp
            now == args.current_time
        IN  /\ ret.is_session = NoExpiryPresent(e)
            /\ IsNum(e) =>
                  /\ ret.is_session = FALSE
                  /\ ret.seconds = Rat(e.num - now, 1)
                  /\ ret.days = Rat(e.num - now, SecondsPerDay)
                  /\ (ret.readable = "Expired") = (e.num - now <= 0)

(***************************************************************************)
(* The analysis run: the files of the directory are loaded one by one,     *)
(* then analyze_cookies, analyze_xss_vulnerabilities and                   *)
(* analyze_domain_relationships fold the loaded list.                      *)
(***************************************************************************)
MaxFiles == 2

\* Cookies as driver.get_cookies() returns them; the page is collected at
\* time 1000.
selenium_cookies ==
    [session |-> [name |-> <<"P","H","P","S","E","S","S","I","D">>, value |-> <<"x">>, domain |-> <<"a",".","c","o","m">>, path |-> <<"/">>,
                  secure |-> TRUE, httpOnly |-> TRUE, sameSite |-> <<"L","a","x">>],
     short   |-> [name |-> <<"c","s","r","f","t","o","k","e","n">>, value |-> <<"t">>, domain |-> <<"w","w","w",".","a",".","c","o","m">>, path |-> <<"/">>,
                  expiry |-> [num |-> 1000 + SecondsPerHour],
                  secure |-> TRUE, httpOnly |-> FALSE, sameSite |-> <<"S","t","r","i","c","t">>],
     month   |-> [name |-> <<"l","a","n","g">>, value |-> <<"e","n">>, domain |-> <<".","e","x","a","m","p","l","e",".","c","o",".","u","k">>, path |-> <<"/">>,
                  expiry |-> [num |-> 1000 + 30 * SecondsPerDay],
                  secure |-> FALSE, httpOnly |-> FALSE],
     ga      |-> [name |-> <<"_","g","a">>, value |-> <<"G","A","1",".","2",".","3">>, domain |-> <<".","t","r","a","c","k","e","r",".","n","e","t">>, path |-> <<"/">>,
                  expiry |-> [num |-> 1000 + 2 * DaysPerYear * SecondsPerDay],
                  secure |-> FALSE, httpOnly |-> FALSE, sameSite |-> <<"N","o","n","e">>],
     query   |-> [name |-> <<"q">>, value |-> <<"%","3","C","s","c","r","i","p","t","%","3","E","a","l","e","r","t","(","1",")","%","3","C","/","s","c","r","i","p","t","%","3","E">>, domain |-> <<"b",".","n","e","t">>, path |-> <<"/","s">>,
                  secure |-> FALSE, httpOnly |-> TRUE, sameSite |-> <<"S","t","r","i","c","t">>],
     fbp     |-> [name |-> <<"_","f","b","p">>, value |-> <<"f","b",".","1">>, domain |-> <<".","t","r","a","c","k","e","r",".","n","e","t">>, path |-> <<"/">>,
                  expiry |-> [num |-> 1000 + 90 * SecondsPerDay],
                  secure |-> TRUE, httpOnly |-> FALSE, sameSite |-> <<"N","o","n","e">>]]

\* Pages the collector visits: the url, the cookies and the keys of the two
\* storages the browser holds after the visit.
SeleniumPages ==
    LET c == selenium_cookies
        page(url, cookies, local_storage, session_storage) ==
            [url |-> url, cookies |-> cookies, localStorage |-> local_storage, sessionStorage |-> session_storage]
    IN  {page(<<"h","t","t","p","s",":","/","/","a",".","c","o","m","/">>, <<c.session, c.ga>>, <<<<"t","h","e","m","e">>>>, <<>>),
         page(<<"h","t","t","p","s",":","/","/","a",".","c","o","m","/">>, <<c.session, c.ga, c.fbp>>, <<<<"t","h","e","m","e">>, <<"c","a","r","t">>>>, <<<<"t","h","e","m","e">>>>),
         page(<<"h","t","t","p","s",":","/","/","a",".","c","o","m","/">>, <<>>, <<>>, <<>>),
         page(<<"h","t","t","p","s",":","/","/","w","w","w",".","a",".","c","o","m","/","s","h","o","p","?","i","d","=","1">>, <<c.short, c.fbp, c.ga>>, <<>>, <<<<"c","a","r","t">>>>),
         page(<<"h","t","t","p","s",":","/","/","s","h","o","p",".","e","x","a","m","p","l","e",".","c","o",".","u","k","/">>, <<c.month, c.fbp>>, <<<<"c","a","r","t">>>>, <<>>),
         page(<<"h","t","t","p",":","/","/","b",".","n","e","t",":","8","0","8","0","/","x">>, <<c.session, c.query>>, <<>>, <<>>)}

\* The snapshots process_selenium_page writes for these pages.
SeleniumSnapshots ==
    {process_selenium_page(p.url, p.cookies, p.localStorage, p.sessionStorage, 1000) : p \in SeleniumPages}

\* The two snapshots of page a.com: cookie sid of a.com with SameSite Lax,
\* cookie _ga of tracker.net with SameSite None; nothing is pre-tagged.
EndToEndExample ==
    <<[url |-> <<"h","t","t","p","s",":","/","/","a",".","c","o","m","/">>, cookies |-> <<[name |-> <<"s","i","d">>, domain |-> <<"a",".","c","o","m">>, samesite |-> <<"L","a","x">>]>>],
      [url |-> <<"h","t","t","p","s",":","/","/","a",".","c","o","m","/">>, cookies |-> <<[name |-> <<"_","g","a">>, domain |-> <<"t","r","a","c","k","e","r",".","n","e","t">>, samesite |-> <<"N","o","n","e">>]>>]>>

\* Snapshot files of other origin: what parse_without_selenium writes for a
\* response with two Set-Cookie headers, records that miss fields, and a
\* record whose list of tagged third-party cookies is empty, and a record
\* whose cookie of the page's own domain is tagged is_third_party.
OtherSnapshots ==
    {[url |-> <<"h","t","t","p","s",":","/","/","a",".","c","o","m","/">>, source |-> <<"s","c","r","a","p","y">>,
      cookies |-> <<[name |-> <<"o","l","d">>, value |-> <<>>, domain |-> <<".","a",".","c","o","m">>, path |-> <<"/">>, expires |-> <<"x">>,
                     secure |-> FALSE, httponly |-> TRUE, samesite |-> <<"l","a","x">>,
                     age |-> calculate_cookie_age([num |-> 990], 1000)],
                    [name |-> <<"i","d">>, value |-> <<"7">>, domain |-> <<"a",".","c","o","m">>, path |-> <<"/">>, expires |-> <<>>,
                     secure |-> TRUE, httponly |-> FALSE, samesite |-> <<>>,
                     age |-> calculate_cookie_age(None, 1000)]>>],
     [cookies |-> <<[name |-> <<"x">>, domain |-> <<"x",".","n","e","t">>, samesite |-> <<"b","o","g","u","s">>,
                     age |-> [is_session |-> FALSE, days |-> None]],
                    [name |-> <<"y">>, domain |-> <<".","a",".","c","o","m">>, is_third_party |-> TRUE, age |-> <<>>]>>,
      localStorage |-> <<<<"t","h","e","m","e">>>>],
     [url |-> <<"h","t","t","p","s",":","/","/","a",".","c","o","m","/">>],
     [url |-> <<"h","t","t","p","s",":","/","/","a",".","c","o","m","/">>, third_party_cookies |-> <<>>,
      cookies |-> <<[name |-> <<"t">>, domain |-> <<"t","r","a","c","k","e","r",".","n","e","t">>]>>],
     [url |-> <<"h","t","t","p","s",":","/","/","a",".","c","o","m","/">>, cookies |-> <<[name |-> <<"o","w","n">>, domain |-> <<".","a",".","c","o","m">>, is_third_party |-> TRUE]>>]}

\* A page with more cookie names, storage keys and third-party domains than a
\* ranking keeps, and a page that repeats the last of them.
BusySnapshots ==
    LET letters == <<"a","b","c","d","e","f","g","h","i","j","k","l">>
        written   == <<<<"N","O","N","E">>, <<"l","A","x">>, <<"S","t","r","i","c","t">>, <<"s","t","r","i","c","t",";">>>>
        cookie(i) == [name |-> <<letters[i]>>, value |-> <<"1">>, domain |-> <<letters[i]>> \o <<"t",".","n","e","t">>,
                      samesite |-> written[(i % Len(written)) + 1]]
    IN  {[url |-> <<"h","t","t","p","s",":","/","/","b","u","s","y",".","c","o","m","/">>, cookies |-> [i \in 1..Len(letters) |-> cookie(i)],
          localStorage |-> [i \in 1..Len(letters) |-> <<letters[i]>>], sessionStorage |-> <<<<"a">>, <<"b">>>>],
         [url |-> <<"h","t","t","p","s",":","/","/","b","u","s","i","e","r",".","c","o","m","/">>, cookies |-> <<cookie(Len(letters)), cookie(Len(letters) - 1)>>,
          localStorage |-> <<<<"l">>, <<"k">>, <<"t","h","e","m","e">>>>, sessionStorage |-> <<<<"b">>>>]}

\* Parsed records with values of another JSON type: cookies = null, a number
\* as cookie value, a number as samesite, a string as age.days.
MistypedSnapshots ==
    <<[url |-> <<"h","t","t","p","s",":","/","/","a",".","c","o","m","/">>, cookies |-> None],
     [url |-> <<"h","t","t","p","s",":","/","/","a",".","c","o","m","/">>, cookies |-> <<[name |-> <<"n">>, value |-> [num |-> 5], domain |-> <<"a",".","c","o","m">>]>>],
     [url |-> <<"h","t","t","p","s",":","/","/","a",".","c","o","m","/">>,
      cookies |-> <<[name |-> <<"s">>, value |-> <<"1">>, domain |-> <<"a",".","c","o","m">>, samesite |-> [num |-> 1]],
                    [name |-> <<"d">>, value |-> <<"1">>, domain |-> <<"a",".","c","o","m">>,
                     age |-> [is_session |-> FALSE, days |-> [str |-> <<"s","o","o","n">>]]]>>]>>

Snapshots ==
    SeleniumSnapshots \cup OtherSnapshots \cup BusySnapshots \cup {EndToEndExample[1], EndToEndExample[2]}

Init ==
    /\ pc = "load"
    /\ args = [fn |-> "main"]
    /\ ret = <<>>
    /\ Idle

\* The name of the n-th file of the directory.
filename(n) == <<"p","a","g","e","_">> \o <<Digits[n + 1]>> \o <<".","j","s","o","n">>

\* cookie_data = json.load(f); cookie_data['file'] = filename
loaded(cookie_data, name) == ("file" :> name) @@ cookie_data

\* A file of the directory: its name and either the object json.load returns
\* for it, or a text json.load rejects.
File(n, content) == ("name" :> filename(n)) @@ content

\* A file that is not JSON.
Truncated == [text |-> <<"{","\"","u","r","l","\"",":"," ">>]

RECURSIVE load_cookie_files(_)
\* The list load_cookie_files returns for the files of a directory: a file
\* that raises in the try block is left out.
load_cookie_files(files) ==
    IF files = <<>> THEN <<>>
    ELSE LET file == files[Len(files)]
             rest == load_cookie_files(SubSeq(files, 1, Len(files) - 1))
         IN  IF "json" \in DOMAIN file THEN Append(rest, loaded(file.json, file.name)) ELSE rest

\* load_cookie_files: one more file of the directory is read.
LoadCookieFile ==
    /\ pc = "load"
    /\ Len(directory) < MaxFiles
    /\ \/ \E cookie_data \in Snapshots :
             directory' = Append(directory, File(Len(directory) + 1, [json |-> cookie_data]))
       \/ \E i \in 1..Len(MistypedSnapshots) :
             directory' = Append(directory, File(Len(directory) + 1, [json |-> MistypedSnapshots[i]]))
       \/ directory' = Append(directory, File(Len(directory) + 1, Truncated))
    /\ cookie_files' = load_cookie_files(directory')
    /\ UNCHANGED <<pc, args, ret, stats, relationships, xss_stats, spider>>

\* stats = analyze_cookies(cookie_files); an exception ends the run.
AnalyzeCookies ==
    /\ pc = "load"
    /\ IF analyze_cookies_raises(cookie_files)
       THEN pc' = "raised" /\ UNCHANGED stats
       ELSE pc' = "analyzed" /\ stats' = analyze_cookies(cookie_files)
    /\ UNCHANGED <<args, ret, cookie_files, relationships, directory, xss_stats, spider>>

\* xss_stats = analyze_xss_vulnerabilities(cookie_files);
\* stats['xss_analysis'] = xss_stats
AnalyzeXssVulnerabilities ==
    /\ pc = "analyzed"
    /\ IF analyze_xss_raises(cookie_files)
       THEN pc' = "raised" /\ UNCHANGED <<stats, xss_stats>>
       ELSE /\ pc' = "scanned"
            /\ xss_stats' = analyze_xss_vulnerabilities(cookie_files)
            /\ stats' = ("xss_analysis" :> xss_stats') @@ stats
    /\ UNCHANGED <<args, ret, cookie_files, relationships, directory, spider>>

\* analyze_domain_relationships(cookie_files), under some iteration order of
\* the purpose sets.
AnalyzeDomainRelationships ==
    /\ pc \in {"analyzed", "scanned"}
    /\ \E hash_order \in Orders(recorded_purposes(related(cookie_files))) :
          relationships' = analyze_domain_relationships(cookie_files, hash_order)
    /\ pc' = "related"
    /\ UNCHANGED <<args, ret, cookie_files, stats, directory, xss_stats, spider>>

Spec ==
    Init /\ [][LoadCookieFile \/ AnalyzeCookies \/ AnalyzeXssVulnerabilities \/ AnalyzeDomainRelationships]_vars

\* analyze_cookies has returned stats.
Analyzed == pc \in {"analyzed", "scanned", "related"}

\* C1: whatever snapshots are aggregated, cookies without an age record
\* included, session_cookies + persistent_cookies equals total_cookies.
C1_SessionPlusPersistent ==
    Analyzed => stats.session_cookies + stats.persistent_cookies = stats.total_cookies

\* C2: whatever snapshots are aggregated, the five age categories partition
\* the cookies: session + expired + short_term + medium_term + long_term
\* equals total_cookies, also with a persistent cookie whose days is null or
\* a cookie without an age record.
C2_AgeCategoriesPartition ==
    Analyzed =>
        LET c == stats.cookie_age_categories
        IN  c.session + c.expired + c.short_term + c.medium_term + c.long_term = stats.total_cookies

\* The counts of the statistics, rankings left out, each table as a mapping.
Counts(st) ==
    [totals |-> <<st.total_domains, st.total_cookies, st.total_localStorage, st.total_sessionStorage>>,
     flags |-> <<st.secure_cookies, st.httponly_cookies, st.third_party_cookies,
                 st.session_cookies, st.persistent_cookies>>,
     cookies_per_domain |-> Items(st.cookies_per_domain),
     storage_per_domain |-> Items(st.storage_per_domain),
     cookie_age_categories |-> st.cookie_age_categories,
     cookie_age_distribution |-> Items(st.cookie_age_distribution),
     samesite_stats |-> st.samesite_stats,
     samesite_by_domain |-> Items(st.samesite_by_domain)]

\* The counts of the relationship graph, each table as a mapping.
RelationshipCounts(r) ==
    LET dr == r.domain_relationships
    IN  [pairs |-> UNION {{<<dr[i][1], dr[i][2].third_parties[j][1], dr[i][2].third_parties[j][2].count>> :
                              j \in 1..Len(dr[i][2].third_parties)} : i \in 1..Len(dr)},
         totals |-> {<<dr[i][1], dr[i][2].total_third_party_cookies>> : i \in 1..Len(dr)},
         third_party_domains |-> Items(r.third_party_domains),
         third_party_purposes |->
            {<<r.third_party_purposes[i][1], Items(r.third_party_purposes[i][2])>> :
                i \in 1..Len(r.third_party_purposes)}]

\* C3: the aggregate does not depend on the order of the snapshots: every
\* permutation of the loaded list, lists with two snapshots of one url and
\* different numbers of cookies or storage items included, gives the same
\* counters, per-domain counts, histograms, SameSite distributions and
\* relationship counts.
C3_OrderIndependent ==
    (pc = "related" /\ cookie_files # <<>>) =>
        \A p \in Orders(1..Len(cookie_files)) :
            LET permuted == [i \in 1..Len(cookie_files) |-> cookie_files[p[i]]]
            IN  /\ Counts(analyze_cookies(permuted)) = Counts(stats)
                /\ RelationshipCounts(related(permuted)) = RelationshipCounts(relationships)

\* domain_relationships[first_party]["third_parties"][third_party]["count"]
RelationshipCount(r, first_party, third_party) ==
    LET rel == DictGet(r.domain_relationships, first_party, [third_parties |-> <<>>])
    IN  DictGet(rel.third_parties, third_party, [count |-> 0]).count

\* The loaded files are the two example snapshots.
EndToEndLoaded ==
    /\ Len(cookie_files) = 2
    /\ \A i \in 1..2 : cookie_files[i] = loaded(EndToEndExample[i], filename(i))

\* C4: for the two example snapshots of page a.com the aggregate counts one
\* third-party cookie, one cookie for the pair a.com -> tracker.net, and the
\* SameSite distribution Lax = 1, None = 1, Strict = 0, unspecified = 0.
C4_EndToEnd ==
    (pc = "related" /\ EndToEndLoaded) =>
        /\ stats.third_party_cookies = 1
        /\ RelationshipCount(relationships, <<"a",".","c","o","m">>, <<"t","r","a","c","k","e","r",".","n","e","t">>) = 1
        /\ stats.samesite_stats = (<<"L","a","x">> :> 1) @@ (<<"N","o","n","e">> :> 1) @@ (<<"S","t","r","i","c","t">> :> 0) @@ (<<"u","n","s","p","e","c","i","f","i","e","d">> :> 0)

C4_Witness ==
    /\ pc = "related"
    /\ EndToEndLoaded
    /\ stats.total_cookies = 2
    /\ Len(relationships.domain_relationships) = 1

\* C11: with no snapshot loaded, analyze_cookies and
\* analyze_xss_vulnerabilities return a result in which every counter is 0
\* and every table is empty, with the same set of fields as the result for a
\* loaded snapshot.
C11_EmptyRun ==
    cookie_files = <<>> =>
        /\ pc = "analyzed" =>
              /\ \A k \in {"total_domains", "total_cookies", "total_localStorage", "total_sessionStorage",
                           "secure_cookies", "httponly_cookies", "third_party_cookies", "session_cookies",
                           "persistent_cookies", "max_cookie_age_days"} : stats[k] = 0
              /\ \A k \in {"cookies_per_domain", "storage_per_domain", "common_cookie_names",
                           "common_storage_keys", "samesite_by_domain"} : stats[k] = <<>>
              /\ \A k \in DOMAIN stats.cookie_age_categories : stats.cookie_age_categories[k] = 0
              /\ \A k \in DOMAIN stats.samesite_stats : stats.samesite_stats[k] = 0
              /\ RatEq(stats.avg_cookie_age_days, 0)
              /\ \A f \in Snapshots : DOMAIN stats = DOMAIN analyze_cookies(<<f>>)
        /\ pc = "scanned" =>
              /\ xss_stats.total_cookies_analyzed = 0
              /\ xss_stats.potentially_vulnerable_cookies = 0
              /\ xss_stats.xss_findings = <<>>
              /\ xss_stats.vulnerable_domains = <<>>
              /\ \A f \in Snapshots : DOMAIN xss_stats = DOMAIN analyze_xss_vulnerabilities(<<f>>)

\* C12: a file that fails to parse is skipped, the well-formed files before
\* and after it are loaded in order, and the caller is told how many files
\* were skipped: what load_cookie_files returns differs from what it returns
\* for the same directory without the files that fail.
C12_SkippedReported ==
    LET parses(file) == "json" \in DOMAIN file
        wellformed   == SelectSeq(directory, parses)
    IN  /\ Len(cookie_files) = Len(wellformed)
        /\ \A i \in 1..Len(wellformed) : cookie_files[i] = loaded(wellformed[i].json, wellformed[i].name)
        /\ Len(wellformed) < Len(directory) => load_cookie_files(wellformed) # cookie_files

\* C13: whatever parsed records are loaded, with cookies = null, a number as
\* cookie value, a number as samesite or a string as age.days, neither
\* analyze_cookies nor analyze_xss_vulnerabilities raises.
C13_NothingFatal == pc # "raised"

\* C14: is_third_party_cookie drops one leading '.' of cookie_domain, so the
\* answer is the one for the domain without the dot, and it answers
\* (False, "No cookie domain") for an empty cookie_domain, also for one that
\* is empty once the dot is dropped.
C14_NoCookieDomain ==
    Returned("is_third_party_cookie") =>
        LET stripped == strip_leading_dot(args.cookie_domain)
        IN  /\ stripped = <<>> => ret = [is_third_party |-> FALSE, domain_info |-> <<"N","o"," ","c","o","o","k","i","e"," ","d","o","m","a","i","n">>]
            /\ (stripped # <<>> /\ ~StartsWith(stripped, <<".">>)) =>
                  ret = is_third_party_cookie(stripped, args.page_domain)

\* The keys that keys_of finds in the files, one entry per occurrence, in
\* the order of the input.
Occurrences(files, keys_of(_)) ==
    LET cat[n \in 0..Len(files)] == IF n = 0 THEN <<>> ELSE cat[n - 1] \o keys_of(files[n])
    IN  cat[Len(files)]

\* table, a list of <<key, count>>, ranks the keys of seen: it holds at most
\* ten keys, each once and with the number of its occurrences, no key left
\* out occurs more often than a key kept, and the keys stand in descending
\* order of count, keys of equal count in the order of their first occurrence.
TopTen(table, seen) ==
    LET keys     == {seen[i] : i \in 1..Len(seen)}
        count(k) == Cardinality({i \in 1..Len(seen) : seen[i] = k})
        first(k) == CHOOSE i \in 1..Len(seen) : seen[i] = k /\ \A j \in 1..(i - 1) : seen[j] # k
        kept     == {table[i][1] : i \in 1..Len(table)}
    IN  /\ Len(table) = IF Cardinality(keys) < 10 THEN Cardinality(keys) ELSE 10
        /\ Cardinality(kept) = Len(table)
        /\ kept \subseteq keys
        /\ \A i \in 1..Len(table) : table[i][2] = count(table[i][1])
        /\ \A i \in 1..Len(table) : \A k \in keys \ kept : count(table[i][1]) >= count(k)
        /\ \A i, j \in 1..Len(table) :
              i < j => \/ table[i][2] > table[j][2]
                       \/ table[i][2] = table[j][2] /\ first(table[i][1]) < first(table[j][1])

\* C17: the ranking of cookie names, the ranking of storage keys and the top
\* trackers each hold at most ten entries, those with the highest counts, in
\* descending order of count, entries of equal count in first-seen order.
C17_TopTen ==
    (pc = "related" /\ cookie_files # <<>>) =>
        LET names(f)   == LET cs == Get(f, "cookies", <<>>) IN [i \in 1..Len(cs) |-> Get(cs[i], "name", <<>>)]
            storage(f) == LET ls == Get(f, "localStorage", <<>>)
                              ss == Get(f, "sessionStorage", <<>>)
                          IN  [i \in 1..Len(ls) |-> <<"l","o","c","a","l","S","t","o","r","a","g","e",":">> \o ls[i]]
                              \o [i \in 1..Len(ss) |-> <<"s","e","s","s","i","o","n","S","t","o","r","a","g","e",":">> \o ss[i]]
            tpd        == relationships.third_party_domains
            counted(n) == [i \in 1..tpd[n][2] |-> tpd[n][1]]
            top        == relationships.top_trackers
        IN  /\ TopTen(stats.common_cookie_names, Occurrences(cookie_files, names))
            /\ TopTen(stats.common_storage_keys, Occurrences(cookie_files, storage))
            /\ TopTen([i \in 1..Len(top) |-> <<top[i].domain, top[i].count>>],
                      Occurrences([n \in 1..Len(tpd) |-> n], counted))

C17_Witness ==
    /\ pc = "related"
    /\ Len(cookie_files) = 2
    /\ Get(cookie_files[1], "url", <<>>) = <<"h","t","t","p","s",":","/","/","b","u","s","y",".","c","o","m","/">>
    /\ Get(cookie_files[2], "url", <<>>) = <<"h","t","t","p","s",":","/","/","b","u","s","i","e","r",".","c","o","m","/">>
    /\ Len(relationships.third_party_domains) > 10
    /\ Len(relationships.top_trackers) = 10
    /\ Len(stats.common_storage_keys) = 10
    /\ Len(stats.common_cookie_names) = 10
    /\ stats.common_cookie_names[1] = <<<<"k">>, 2>>
    /\ stats.common_cookie_names[2] = <<<<"l">>, 2>>
    /\ stats.common_cookie_names[3] = <<<<"a">>, 1>>

\* C18: every cookie is counted in exactly one SameSite bucket, globally and
\* for the url of its snapshot: under None, Lax or Strict when its samesite is
\* that word in any letter case, under unspecified for any other value and for
\* none at all; the global buckets add up to total_cookies.
C18_SameSiteBuckets ==
    Analyzed =>
        LET cookies(f)   == Get(f, "cookies", <<>>)
            url(f)       == Get(f, "url", <<"u","n","k","n","o","w","n">>)
            bucket(c)    == LET written == ToLower(Get(c, "samesite", <<>>))
                            IN  IF written = <<"n","o","n","e">> THEN <<"N","o","n","e">>
                                ELSE IF written = <<"l","a","x">> THEN <<"L","a","x">>
                                ELSE IF written = <<"s","t","r","i","c","t">> THEN <<"S","t","r","i","c","t">>
                                ELSE <<"u","n","s","p","e","c","i","f","i","e","d">>
            all          == UNION {{<<i, j>> : j \in 1..Len(cookies(cookie_files[i]))} : i \in 1..Len(cookie_files)}
            in(b)        == {p \in all : bucket(cookies(cookie_files[p[1]])[p[2]]) = b}
            buckets      == {<<"N","o","n","e">>, <<"L","a","x">>, <<"S","t","r","i","c","t">>, <<"u","n","s","p","e","c","i","f","i","e","d">>}
            by_domain    == stats.samesite_by_domain
        IN  /\ DOMAIN stats.samesite_stats = buckets
            /\ \A b \in buckets : stats.samesite_stats[b] = Cardinality(in(b))
            /\ Sum([i \in 1..4 |-> stats.samesite_stats[<<<<"N","o","n","e">>, <<"L","a","x">>, <<"S","t","r","i","c","t">>, <<"u","n","s","p","e","c","i","f","i","e","d">>>>[i]]])
                  = stats.total_cookies
            /\ {by_domain[n][1] : n \in 1..Len(by_domain)} = {url(cookie_files[p[1]]) : p \in all}
            /\ \A n \in 1..Len(by_domain) : \A b \in buckets :
                  by_domain[n][2][b] = Cardinality({p \in in(b) : url(cookie_files[p[1]]) = by_domain[n][1]})

C18_Witness ==
    /\ pc = "analyzed"
    /\ Len(cookie_files) = 2
    /\ Get(cookie_files[1], "url", <<>>) = <<"h","t","t","p","s",":","/","/","b","u","s","y",".","c","o","m","/">>
    /\ Get(cookie_files[2], "source", <<>>) = <<"s","c","r","a","p","y">>
    /\ stats.samesite_stats = (<<"L","a","x">> :> 4) @@ (<<"N","o","n","e">> :> 3) @@ (<<"S","t","r","i","c","t">> :> 3) @@ (<<"u","n","s","p","e","c","i","f","i","e","d">> :> 4)
    /\ Len(stats.samesite_by_domain) = 2

\* C19: avg_cookie_age_days and max_cookie_age_days are the mean and the
\* maximum of the whole days of the cookies with is_session false and
\* days > 0, those with 0 < days < 1 included, each occurrence counted once.
C19_AgeOverLiveCookies ==
    Analyzed =>
        LET cookies(i)   == Get(cookie_files[i], "cookies", <<>>)
            age(i, j)    == Get(cookies(i)[j], "age", <<>>)
            live(i, j)   == /\ Truthy(age(i, j))
                            /\ ~Get(age(i, j), "is_session", TRUE)
                            /\ Get(age(i, j), "days", None) # None
                            /\ ~RatLe(age(i, j).days, 0)
            over(val(_, _)) == [i \in 1..Len(cookie_files) |->
                                  [j \in 1..Len(cookies(i)) |-> IF live(i, j) THEN val(i, j) ELSE 0]]
            one(i, j)    == 1
            days(i, j)   == RatInt(age(i, j).days)
            n            == Sum([i \in 1..Len(cookie_files) |-> Sum(over(one)[i])])
            total        == Sum([i \in 1..Len(cookie_files) |-> Sum(over(days)[i])])
            avg          == stats.avg_cookie_age_days
        IN  /\ n > 0 => avg.num * n = avg.den * total
            /\ n = 0 => RatEq(avg, 0)
            /\ \A i \in 1..Len(cookie_files) : \A j \in 1..Len(cookies(i)) :
                  over(days)[i][j] <= stats.max_cookie_age_days
            /\ \/ n = 0 /\ stats.max_cookie_age_days = 0
               \/ \E i \in 1..Len(cookie_files) : \E j \in 1..Len(cookies(i)) :
                     live(i, j) /\ days(i, j) = stats.max_cookie_age_days

\* C20: a snapshot with the field third_party_cookies contributes to the
\* relationship graph through that list alone, so as if it had no cookies
\* field; only a snapshot without the field contributes through the
\* classification of its cookies.
C20_TaggedListWhenPresent ==
    pc = "related" =>
        LET tagged_only(f) == IF "third_party_cookies" \in DOMAIN f
                              THEN [k \in DOMAIN f \ {"cookies"} |-> f[k]]
                              ELSE f
            as_claimed     == related([i \in 1..Len(cookie_files) |-> tagged_only(cookie_files[i])])
        IN  RelationshipCounts(relationships) = RelationshipCounts(as_claimed)

\* a < b for two str, compared character by character by code point.
StrLess(a, b) ==
    LET code(c) == CHOOSE n \in 32..126 : ByteChar(n) = c
    IN  \E k \in 1..(Len(b)) :
           /\ \A i \in 1..(k - 1) : i <= Len(a) /\ a[i] = b[i]
           /\ \/ k = Len(a) + 1
              \/ k <= Len(a) /\ code(a[k]) < code(b[k])

\* C21: in the returned graph the purposes of every pair first party ->
\* third party are a list in ascending order, without duplicates, of exactly
\* the purposes accumulated for the pair.
C21_PurposesSorted ==
    pc = "related" =>
        LET dr     == relationships.domain_relationships
            before == related(cookie_files).domain_relationships
        IN  \A i \in 1..Len(dr) : \A j \in 1..Len(dr[i][2].third_parties) :
               LET purposes == dr[i][2].third_parties[j][2].purposes
               IN  /\ {purposes[n] : n \in 1..Len(purposes)} = before[i][2].third_parties[j][2].purposes
                   /\ \A m, n \in 1..Len(purposes) : m < n => StrLess(purposes[m], purposes[n])

\* C22: the readable age shows the unit count truncated to an integer, and
\* the unit word is singular exactly when the integer shown is 1: an hour and
\* a half reads "1 hour", two hours read "2 hours".
C22_SingularWhenShownOne ==
    \A seconds \in {th + d : th \in AgeThresholds, d \in (-MaxDelta)..MaxDelta} :
        (AgeCalledWith(seconds) /\ seconds > 0) =>
            LET per  == IF seconds < SecondsPerMinute * 60 THEN <<SecondsPerMinute, "minute">>
                        ELSE IF seconds < SecondsPerDay THEN <<SecondsPerHour, "hour">>
                        ELSE IF seconds < DaysPerMonth * SecondsPerDay THEN <<SecondsPerDay, "day">>
                        ELSE IF seconds < DaysPerYear * SecondsPerDay THEN <<DaysPerMonth * SecondsPerDay, "month">>
                        ELSE <<DaysPerYear * SecondsPerDay, "year">>
                 n    == seconds \div per[1]
            IN  ret.readable = ToString(n) \o " " \o per[2] \o (IF n = 1 THEN "" ELSE "s")

\* C23: third_party_cookies counts exactly the cookies with a non-empty
\* domain that is_third_party_cookie classifies as third party for the
\* netloc of the snapshot's url, also for a page under co.uk and for a
\* snapshot without url.
C23_AgreesWithClassifier ==
    Analyzed =>
        LET cookies(i)  == Get(cookie_files[i], "cookies", <<>>)
            page(i)     == netloc(Get(cookie_files[i], "url", <<"u","n","k","n","o","w","n">>))
            third(i, j) == LET cookie_domain == Get(cookies(i)[j], "domain", <<>>)
                           IN  /\ cookie_domain # <<>>
                               /\ is_third_party_cookie(cookie_domain, page(i)).is_third_party
        IN  stats.third_party_cookies =
               Sum([i \in 1..Len(cookie_files) |->
                      Sum([j \in 1..Len(cookies(i)) |-> IF third(i, j) THEN 1 ELSE 0])])

\* C24: every finding of the XSS report has the httponly, secure, path and
\* SameSite attributes of the cookie record it comes from, whether the record
\* spells the keys httponly / samesite or httpOnly / sameSite.
C24_FindingAttributes ==
    pc = "scanned" =>
        LET vulnerable(f) == SelectSeq(Get(f, "cookies", <<>>),
                                       LAMBDA c : check_cookie_for_xss(Get(c, "value", <<>>)) # <<>>)
            source        == Occurrences(cookie_files, vulnerable)
            findings      == xss_stats.xss_findings
            either(c, lower, camel, default) == IF lower \in DOMAIN c THEN c[lower] ELSE Get(c, camel, default)
        IN  /\ Len(findings) = Len(source)
            /\ \A n \in 1..Len(findings) :
                  /\ findings[n].cookie_name = Get(source[n], "name", <<"u","n","k","n","o","w","n">>)
                  /\ findings[n].secure = Get(source[n], "secure", FALSE)
                  /\ findings[n].path = Get(source[n], "path", <<"/">>)
                  /\ findings[n].httponly = either(source[n], "httponly", "httpOnly", FALSE)
                  /\ findings[n].sameSite = either(source[n], "samesite", "sameSite", <<"N","o","n","e">>)

\* C25: no first party is listed among its own third parties, whether the
\* cookies come from the tagged list or from the cookies list, cookies that
\* carry is_third_party = true included.
C25_NoSelfRelationship ==
    pc = "related" =>
        LET dr == relationships.domain_relationships
        IN  \A i \in 1..Len(dr) : \A j \in 1..Len(dr[i][2].third_parties) :
               dr[i][2].third_parties[j][1] # dr[i][1]

\* C26: the counts of the graph agree: for every first party
\* total_third_party_cookies is the sum of the counts of its third parties,
\* every count is the length of the entry's cookie_names, and
\* third_party_domains[d] is the sum of the counts of d over the first parties.
C26_CountsConsistent ==
    pc = "related" =>
        LET dr       == relationships.domain_relationships
            tps(i)   == dr[i][2].third_parties
            tpd      == relationships.third_party_domains
            listed   == UNION {{tps(i)[j][1] : j \in 1..Len(tps(i))} : i \in 1..Len(dr)}
        IN  /\ \A i \in 1..Len(dr) :
                  /\ dr[i][2].total_third_party_cookies = Sum([j \in 1..Len(tps(i)) |-> tps(i)[j][2].count])
                  /\ \A j \in 1..Len(tps(i)) : tps(i)[j][2].count = Len(tps(i)[j][2].cookie_names)
            /\ {tpd[n][1] : n \in 1..Len(tpd)} = listed
            /\ \A n \in 1..Len(tpd) :
                  tpd[n][2] = Sum([i \in 1..Len(dr) |-> RelationshipCount(relationships, dr[i][1], tpd[n][1])])

C26_Witness ==
    /\ pc = "related"
    /\ Len(relationships.domain_relationships) = 2
    /\ RelationshipCount(relationships, <<"a",".","c","o","m">>, <<"t","r","a","c","k","e","r",".","n","e","t">>) = 2
    /\ RelationshipCount(relationships, <<"e","x","a","m","p","l","e",".","c","o",".","u","k">>, <<"t","r","a","c","k","e","r",".","n","e","t">>) = 1
    /\ DictGet(relationships.third_party_domains, <<"t","r","a","c","k","e","r",".","n","e","t">>, 0) = 3

\* C27: every cookie name that stands in a vendor table of
\* identify_tracking_purpose is given the label of that table.
C27_VendorNamesGetVendorLabel ==
    Returned("identify_tracking_purpose") =>
        /\ args.cookie_name \in {<<"_","f","b","p">>, <<"f","r">>} => ret = <<"F","a","c","e","b","o","o","k"," ","T","r","a","c","k","i","n","g">>
        /\ args.cookie_name \in {<<"_","g","i","d">>, <<"_","g","a">>, <<"_","g","a","t">>} => ret = <<"G","o","o","g","l","e"," ","A","n","a","l","y","t","i","c","s">>
        /\ args.cookie_name \in {<<"_","_","u","t","m","a">>, <<"_","_","u","t","m","b">>, <<"_","_","u","t","m","c">>, <<"_","_","u","t","m","z">>} => ret = <<"G","o","o","g","l","e"," ","A","n","a","l","y","t","i","c","s"," ","(","L","e","g","a","c","y",")">>
        /\ args.cookie_name \in {<<"_","h","j","i","d">>, <<"_","h","j","S","e","s","s","i","o","n","U","s","e","r">>} => ret = <<"H","o","t","j","a","r"," ","A","n","a","l","y","t","i","c","s">>
        /\ args.cookie_name \in {<<"_","p","i","n","_","u","n","a","u","t","h">>, <<"_","p","i","n","t","e","r","e","s","t","_","s","e","s","s">>} => ret = <<"P","i","n","t","e","r","e","s","t"," ","T","r","a","c","k","i","n","g">>
        /\ args.cookie_name \in {<<"_","t","w","i","t","t","e","r","_","s","e","s","s">>, <<"c","t","0">>} => ret = <<"T","w","i","t","t","e","r"," ","T","r","a","c","k","i","n","g">>

(***************************************************************************)
(* cookie_spider.py: the crawl.  The scheduler keeps the requests that     *)
(* wait for the downloader and the fingerprints its duplicate filter has   *)
(* seen; a fingerprint is the URL of a request, all of them being GET      *)
(* requests without a body.                                                *)
(***************************************************************************)
\* start_urls
StartUrls == <<<<"h","t","t","p","s",":","/","/","a",".","c","o","m","/">>, <<"h","t","t","p",":","/","/","b",".","n","e","t",":","8","0","8","0","/","x">>>>

\* response.headers.getlist('Set-Cookie') of the responses the sites send.  A
\* header is the text its bytes decode to, or bytes that are not UTF-8.
SetCookieHeaders ==
    LET text(s) == [decoded |-> s]
    IN  <<<<>>,
          <<text(<<"s","i","d","=","1">>)>>,
          <<text(<<"n","o","v","a","l","u","e">>)>>,
          <<[undecodable |-> TRUE]>>,
          <<text(<<" ",";"," ","x","=","1">>), text(<<"b","a","d",";"," ","P","a","t","h","=","/">>)>>,
          <<text(<<"b","a","d">>), text(<<"i","d","=","7",";"," ","H","t","t","p","O","n","l","y",";"," ","S","a","m","e","S","i","t","e","=","L","a","x",";"," ","D","o","m","a","i","n","=",".","a",".","c","o","m">>)>>,
          <<text(<<"_","g","a","=","G","A","1",".","2",";"," ","E","x","p","i","r","e","s","=","T","h","u",","," ","0","1"," ","J","a","n"," ","1","9","7","0"," ","0","1",":","0","0",":","0","0"," ","G","M","T",";"," ","P","a","t","h","=","/","p",";"," ","S","e","c","u","r","e">>), text(<<"k","=","a","=","b",";"," ","e","x","p","i","r","e","s">>)>>>>

\* What parse_without_selenium returns for a response, and the snapshot it
\* writes, None when it writes none.
parse_without_selenium(url, headers, current_time) ==
    LET domain == netloc(url)
        strip(s) ==
            LET kept == {i \in 1..Len(s) : s[i] \notin SpaceChars}
            IN  IF kept = {} THEN <<>>
                ELSE SubSeq(s, CHOOSE i \in kept : \A j \in kept : i <= j, CHOOSE i \in kept : \A j \in kept : i >= j)
        \* attributes; a value is [str |-> v], or [flag |-> TRUE] for True
        attributes_of(parts) ==
            LET upto[n \in 1..Len(parts)] ==
                    IF n = 1 THEN <<>>
                    ELSE LET part == strip(parts[n])
                             i    == IndexOf(part, "=")
                         IN  IF i > 0
                             THEN DictSet(upto[n - 1], ToLower(SubSeq(part, 1, i - 1)),
                                          [str |-> SubSeq(part, i + 1, Len(part))])
                             ELSE DictSet(upto[n - 1], ToLower(part), [flag |-> TRUE])
            IN  upto[Len(parts)]
        value_of(v) == IF "str" \in DOMAIN v THEN v.str ELSE TRUE
        \* datetime.strptime(...).timestamp() in either format; None when both raise
        strptime(v) ==
            IF "str" \notin DOMAIN v THEN None
            ELSE IF v.str = <<"T","h","u",","," ","0","1"," ","J","a","n"," ","1","9","7","0"," ","0","1",":","0","0",":","0","0"," ","G","M","T">> THEN [num |-> 3600]
            ELSE IF v.str = <<"T","h","u",","," ","0","1","-","J","a","n","-","1","9","7","0"," ","0","2",":","0","0",":","0","0"," ","G","M","T">> THEN [num |-> 7200]
            ELSE None
        cookie_info_of(parts) ==
            LET main_part  == strip(parts[1])
                i          == IndexOf(main_part, "=")
                attributes == attributes_of(parts)
                expires    == DictGet(attributes, <<"e","x","p","i","r","e","s">>, [str |-> <<>>])
                expiry_timestamp == IF expires = [str |-> <<>>] THEN None ELSE strptime(expires)
            IN  [name |-> SubSeq(main_part, 1, i - 1),
                 value |-> SubSeq(main_part, i + 1, Len(main_part)),
                 domain |-> value_of(DictGet(attributes, <<"d","o","m","a","i","n">>, [str |-> domain])),
                 path |-> value_of(DictGet(attributes, <<"p","a","t","h">>, [str |-> <<"/">>])),
                 expires |-> value_of(expires),
                 secure |-> DictHas(attributes, <<"s","e","c","u","r","e">>),
                 httponly |-> DictHas(attributes, <<"h","t","t","p","o","n","l","y">>),
                 samesite |-> value_of(DictGet(attributes, <<"s","a","m","e","s","i","t","e">>, [str |-> <<>>])),
                 age |-> calculate_cookie_age(expiry_timestamp, current_time)]
        \* what one header appends to cookie_data
        parsed(header) ==
            IF "decoded" \notin DOMAIN header THEN <<>>
            ELSE LET parts == Split(header.decoded, ";")
                 IN  IF HasChar(strip(parts[1]), "=") THEN <<cookie_info_of(parts)>> ELSE <<>>
        cookie_data == Concat([j \in 1..Len(headers) |-> parsed(headers[j])])
    IN  IF Len(headers) > 0
        THEN IF Len(cookie_data) > 0
             THEN [returned |-> [domain |-> domain, url |-> url, cookies_count |-> Len(cookie_data),
                                 file_saved |-> Join(Split(domain, "."), "_") \o <<".","j","s","o","n">>, source |-> <<"s","c","r","a","p","y">>],
                   written  |-> [url |-> url, cookies |-> cookie_data, source |-> <<"s","c","r","a","p","y">>]]
             ELSE [returned |-> None, written |-> None]
        ELSE [returned |-> [domain |-> domain, url |-> url, cookies_count |-> 0,
                            file_saved |-> None, source |-> <<"s","c","r","a","p","y">>],
              written  |-> None]

\* The scheduler takes a request a callback returned or start_requests
\* yielded: a request made without dont_filter is dropped when the duplicate
\* filter has seen its fingerprint.
enqueue_request(sp, request) ==
    IF request.url \in sp.seen THEN sp
    ELSE [sp EXCEPT !.scheduler = @ \cup {request}, !.seen = @ \cup {request.url}]

\* The engine hands what a callback of the request returned to the item
\* pipeline or to the scheduler; call is the record of that call.
handled(sp, request, call, returned, written) ==
    LET done == [sp EXCEPT !.scheduler = @ \ {request},
                           !.calls = Append(@, call),
                           !.written = IF IsNull(written) THEN @ ELSE Append(@, written)]
    IN  IF IsNull(returned) THEN done
        ELSE IF "callback" \in DOMAIN returned THEN enqueue_request(done, returned)
        ELSE [done EXCEPT !.items = Append(@, returned)]

\* The outcomes of process_selenium_page(url, domain) for the start URLs: the
\* record of a saved page with the data_to_save it wrote, the fallback
\* request after a WebDriverException, or an error record.
SeleniumOutcomes ==
    LET saved(data) ==
            [url      |-> data.url,
             outcome  |-> "saved",
             returned |-> [domain |-> netloc(data.url), url |-> data.url, cookies_count |-> Len(data.cookies),
                           localStorage_count |-> Len(data.localStorage),
                           sessionStorage_count |-> Len(data.sessionStorage),
                           total_items |-> Len(data.cookies) + Len(data.localStorage) + Len(data.sessionStorage),
                           file_saved |-> Join(Split(netloc(data.url), "."), "_") \o <<".","j","s","o","n">>,
                           source |-> <<"s","e","l","e","n","i","u","m">>],
             written  |-> data]
        raised(url) ==
            {[url      |-> url,
              outcome  |-> "WebDriverException",
              returned |-> [url |-> url, callback |-> "parse_without_selenium",
                            selenium |-> FALSE, errback |-> FALSE],
              written  |-> None],
             [url      |-> url,
              outcome  |-> "Exception",
              returned |-> [domain |-> netloc(url), url |-> url, error |-> "Exception",
                            cookies_count |-> 0, file_saved |-> None],
              written  |-> None]}
    IN  {saved(data) : data \in SeleniumSnapshots} \cup UNION {raised(StartUrls[n]) : n \in 1..Len(StartUrls)}

\* CookieSpider(no_selenium=...) before the crawl starts.
InitSpider ==
    /\ pc = "spider"
    /\ args = [fn |-> "crawl"]
    /\ ret = <<>>
    /\ cookie_files = <<>>
    /\ stats = <<>>
    /\ relationships = <<>>
    /\ directory = <<>>
    /\ xss_stats = <<>>
    /\ \E no_selenium \in BOOLEAN :
          spider = [phase |-> "opened", no_selenium |-> no_selenium, driver |-> FALSE,
                    scheduler |-> {}, seen |-> {}, items |-> <<>>, written |-> <<>>, calls |-> <<>>]

\* start_requests(); setup_selenium() returns a driver or None.
StartRequests ==
    /\ pc = "spider"
    /\ spider.phase = "opened"
    /\ \E set_up \in BOOLEAN :
          LET driver == ~spider.no_selenium /\ set_up
              request(url) ==
                  [url |-> url,
                   callback |-> IF driver THEN "parse_with_selenium" ELSE "parse_without_selenium",
                   selenium |-> driver, errback |-> TRUE]
              yielded[n \in 0..Len(StartUrls)] ==
                  IF n = 0 THEN [spider EXCEPT !.phase = "crawling", !.driver = driver]
                  ELSE enqueue_request(yielded[n - 1], request(StartUrls[n]))
          IN  spider' = yielded[Len(StartUrls)]
    /\ UNCHANGED <<pc, args, ret, cookie_files, stats, relationships, directory, xss_stats>>

\* The response of a request arrives and its callback parse_with_selenium runs.
ParseWithSelenium ==
    /\ pc = "spider"
    /\ \E request \in spider.scheduler :
          /\ request.callback = "parse_with_selenium"
          /\ \E o \in {so \in SeleniumOutcomes : so.url = request.url} :
                spider' = handled(spider, request,
                                  [handler |-> "parse_with_selenium", url |-> request.url,
                                   outcome |-> o.outcome, returned |-> o.returned],
                                  o.returned, o.written)
    /\ UNCHANGED <<pc, args, ret, cookie_files, stats, relationships, directory, xss_stats>>

\* The responses of the sites to a request without Selenium, each with what
\* parse_without_selenium does with it at time 1000.
ScrapyResponses ==
    {[url |-> StartUrls[n], headers |-> SetCookieHeaders[h],
      result |-> parse_without_selenium(StartUrls[n], SetCookieHeaders[h], 1000)] :
        n \in 1..Len(StartUrls), h \in 1..Len(SetCookieHeaders)}

\* The response of a request arrives and its callback parse_without_selenium runs.
ParseWithoutSelenium ==
    /\ pc = "spider"
    /\ \E request \in spider.scheduler :
          /\ request.callback = "parse_without_selenium"
          /\ \E response \in {r \in ScrapyResponses : r.url = request.url} :
                spider' = handled(spider, request,
                                  [handler |-> "parse_without_selenium", url |-> request.url,
                                   headers |-> response.headers, returned |-> response.result.returned,
                                   written |-> response.result.written],
                                  response.result.returned, response.result.written)
    /\ UNCHANGED <<pc, args, ret, cookie_files, stats, relationships, directory, xss_stats>>

\* The download of a request fails and its errback handle_error runs.
HandleError ==
    /\ pc = "spider"
    /\ \E request \in spider.scheduler :
          /\ request.errback
          /\ LET url    == request.url
                 record == [domain |-> netloc(url), url |-> url, error |-> "Failure",
                            cookies_count |-> 0, file_saved |-> None]
                 call(retried, returned) ==
                     [handler |-> "handle_error", url |-> url, driver |-> spider.driver,
                      retried |-> retried, returned |-> returned]
             IN  IF spider.driver /\ ~request.selenium
                 THEN \/ spider' = handled(spider, request, call(TRUE, record), record, None)
                      \/ \E o \in {so \in SeleniumOutcomes : so.url = url} :
                            spider' = handled(spider, request, call(TRUE, o.returned), o.returned, o.written)
                 ELSE spider' = handled(spider, request, call(FALSE, record), record, None)
    /\ UNCHANGED <<pc, args, ret, cookie_files, stats, relationships, directory, xss_stats>>

\* A crawl: the engine runs start_requests and then the callbacks and
\* errbacks of the scheduled requests, in any order.
SpecSpider ==
    InitSpider /\ [][StartRequests \/ ParseWithSelenium \/ ParseWithoutSelenium \/ HandleError]_vars

\* The engine keeps downloading while the scheduler holds a request.
SpecSpiderFair ==
    SpecSpider /\ WF_vars(StartRequests \/ ParseWithSelenium \/ ParseWithoutSelenium \/ HandleError)

\* The calls of a handler the crawl has made so far.
CallsOf(handler) ==
    {spider.calls[n] : n \in {m \in 1..Len(spider.calls) : spider.calls[m].handler = handler}}

\* C28: once process_selenium_page has raised WebDriverException for a URL,
\* parse_without_selenium eventually processes that URL: the fallback request
\* it returned is downloaded and handled.
C28_FallbackHandled ==
    \A n \in 1..Len(StartUrls) :
        (\E c \in CallsOf("parse_with_selenium") :
            c.url = StartUrls[n] /\ c.outcome = "WebDriverException")
        ~> (\E c \in CallsOf("parse_without_selenium") : c.url = StartUrls[n])

\* C28, the part that holds: a fallback schedules nothing, so no URL is
\* processed more than once by Selenium or more than once by the fallback.
C28_AtMostOnce ==
    \A i, j \in 1..Len(spider.calls) :
        (/\ spider.calls[i].url = spider.calls[j].url
         /\ spider.calls[i].handler = spider.calls[j].handler) => i = j

\* C28: no request is ever scheduled for parse_without_selenium in a crawl
\* that has a WebDriver.
C28_FallbackNeverScheduled ==
    spider.driver => \A request \in spider.scheduler : request.callback = "parse_with_selenium"

\* C29: when handle_error ran for a failed request while a WebDriver was
\* available, the failure was retried through Selenium before a record was
\* returned.
C29_RetriedThroughSelenium ==
    \A c \in CallsOf("handle_error") : c.driver => c.retried

\* C29: the Selenium branch of handle_error never runs, with or without a
\* WebDriver.
C29_BranchNeverRuns ==
    \A c \in CallsOf("handle_error") : ~c.retried

\* C30: parse_without_selenium returns one result record with domain, url,
\* cookies_count and file_saved for every response, and writes a snapshot
\* only when a Set-Cookie header had a name part with '='.
C30_OneRecordPerResponse ==
    \A c \in CallsOf("parse_without_selenium") :
        /\ ~IsNull(c.returned)
        /\ {"domain", "url", "cookies_count", "file_saved"} \subseteq DOMAIN c.returned
        /\ ~IsNull(c.written) =>
              \E j \in 1..Len(c.headers) :
                  /\ "decoded" \in DOMAIN c.headers[j]
                  /\ HasChar(Split(c.headers[j].decoded, ";")[1], "=")

\* C30, the part that holds: a snapshot is written exactly when a cookie was
\* parsed, and a returned record counts the parsed cookies.
C30_FileOnlyWithCookies ==
    \A c \in CallsOf("parse_without_selenium") :
        LET parsable == {j \in 1..Len(c.headers) :
                            /\ "decoded" \in DOMAIN c.headers[j]
                            /\ HasChar(Split(c.headers[j].decoded, ";")[1], "=")}
        IN  /\ ~IsNull(c.written) <=> parsable # {}
            /\ ~IsNull(c.returned) => c.returned.cookies_count = Cardinality(parsable)
            /\ IsNull(c.returned) <=> (Len(c.headers) > 0 /\ parsable = {})

====
